---- MODULE Spec2Model ----
(***************************************************************************)
(* Element-anchored persistent chat engine (ElementChatWindow.tsx).        *)
(*                                                                         *)
(* The component runs on one JavaScript event loop.  One action of this    *)
(* module is one task of that loop: a user event, a timer callback, or the *)
(* resumption of an async function after an await that waits for I/O,      *)
(* together with every microtask continuation it triggers.  React state    *)
(* and the ref that mirrors it (messages/messagesRef, messageQueue/        *)
(* messageQueueRef, isProcessingQueue/isProcessingQueueRef) are committed  *)
(* before the next task and are one variable each.                         *)
(*                                                                         *)
(* Text is a sequence of one-character strings.  Time is counted in ticks  *)
(* of 100 ms; a timestamp is kept as the time elapsed since it was taken.  *)
(***************************************************************************)
EXTENDS Integers, Sequences, FiniteSets, TLC

\* ------------------------------------------------------------------ bounds
\* submissions the user makes in one run
MaxSubmits == 3
\* submissions the user makes in one run of the dispatch race
MaxRaceSubmits == 4
\* submissions the user makes in one run under fair scheduling
MaxFairSubmits == 3
\* submissions the user makes in one run of overlapping requests
MaxOverlapSubmits == 5
\* fragments the backend streams for one request
MaxChunks == 1
\* history clears the user confirms in one run
MaxClears == 1
\* messages in a list given to the turn correlation on its own
MaxListLen == 3
\* characters of an accumulated text given to the partition on its own
MaxTextLen == 4
\* fragments of a delta history given to the partition on its own
MaxFragments == 3
\* changes the user makes to the window in one run (drags, resizes, toggles)
MaxMutations == 2
\* submissions the user makes in one run of the window's persistence
MaxPersistSubmits == 2
\* calls of saveElementChat that may be waiting at once
MaxSaving == 1
\* anchor chips the user clicks in one run
MaxAnchorOps == 3
\* how many times the window is resized, collapsed or expanded
MaxCollapseOps == 4
\* how many elements the page of a resolution has
MaxElements == 2
\* how many calls the indicator service gets
MaxIndicatorOps == 3
\* how many callbacks of one kind can wait for an animation frame
MaxRequests == 2

\* --------------------------------------------------------- program constants
\* duplicate-suppression window, 1500 ms, in ticks
DedupeWindow == 15
\* delay of the dequeue timer, 100 ms, in ticks
DequeueDelay == 1
\* delay of the debounced save, 500 ms, in ticks
SaveDelay == 5
\* a repositioning below this distance is skipped: 0.5 px, in half pixels
Epsilon == 1
\* the distance below which a candidate's rectangle is the descriptor's, in pixels
ProximityPx == 5
\* ANCHOR_ALIGNMENT_NUDGE_PX, 32 px, in half pixels
ANCHOR_ALIGNMENT_NUDGE_PX == 64
\* the gap of the default offset, 20 px, in half pixels
DefaultGap == 40
\* the largest horizontal default offset, 240 px, in half pixels
MaxDefaultOffset == 480

\* an optional value is a sequence of length 0 (absent) or 1 (present)
None == <<>>
Some(v) == <<v>>

\* the elements of a sequence
Elements(seq) == {seq[i] : i \in DOMAIN seq}

\* ------------------------------------------------------------------- text
IsSpace(c) == c \in {" ", "\n", "\r", "\t"}

RECURSIVE TrimStart(_)
\* String.prototype.replace(/^\s+/, '')
TrimStart(s) ==
  IF s = <<>> THEN <<>>
  ELSE IF IsSpace(Head(s)) THEN TrimStart(Tail(s)) ELSE s

RECURSIVE TrimEnd(_)
TrimEnd(s) ==
  IF s = <<>> THEN <<>>
  ELSE IF IsSpace(s[Len(s)]) THEN TrimEnd(SubSeq(s, 1, Len(s) - 1)) ELSE s

\* String.prototype.trim()
Trim(s) == TrimEnd(TrimStart(s))

RECURSIVE normalizeNewlines(_)
\* value.replace(/\r\n/g, '\n')
normalizeNewlines(s) ==
  IF Len(s) < 2 THEN s
  ELSE IF s[1] = "\r" /\ s[2] = "\n"
       THEN <<"\n">> \o normalizeNewlines(SubSeq(s, 3, Len(s)))
       ELSE <<s[1]>> \o normalizeNewlines(Tail(s))

\* fullContent.indexOf('\n\n'), 1-based; 0 when absent
DoubleBreakIndex(s) ==
  LET hits == {i \in 1..(Len(s) - 1) : s[i] = "\n" /\ s[i + 1] = "\n"}
  IN IF hits = {} THEN 0 ELSE CHOOSE i \in hits : \A j \in hits : i <= j

RECURSIVE JoinChunks(_)
\* restChunks.join('')
JoinChunks(chunks) ==
  IF chunks = <<>> THEN <<>> ELSE Head(chunks) \o JoinChunks(Tail(chunks))

NormalizeEach(chunks) == [i \in 1..Len(chunks) |-> normalizeNewlines(chunks[i])]

\* a partition that tries the fragment rule before the double line break
separateFragmentsFirst(fullContent, deltaHistory) ==
  LET normalizedFull == normalizeNewlines(fullContent)
      idx == DoubleBreakIndex(normalizedFull)
      thinking1 == Trim(SubSeq(normalizedFull, 1, idx - 1))
      answer1 == TrimStart(SubSeq(normalizedFull, idx + 2, Len(normalizedFull)))
      chunks == NormalizeEach(deltaHistory)
      thinking2 == Trim(Head(chunks))
      answer2 == TrimStart(normalizeNewlines(JoinChunks(Tail(chunks))))
  IN IF Trim(normalizedFull) = <<>>
       THEN [answer |-> <<>>, thinking |-> <<>>]
     ELSE IF Len(deltaHistory) > 1 /\ thinking2 # <<>> /\ Trim(answer2) # <<>>
       THEN [answer |-> answer2, thinking |-> thinking2]
     ELSE IF idx # 0 /\ thinking1 # <<>> /\ Trim(answer1) # <<>>
       THEN [answer |-> answer1, thinking |-> thinking1]
     ELSE [answer |-> TrimStart(normalizedFull), thinking |-> <<>>]

\* thinking = <<>> stands for "thinking: undefined" (a thinking block is never empty)
separateAssistantResponse(fullContent, deltaHistory) ==
  LET normalizedFull == normalizeNewlines(fullContent)
      idx == DoubleBreakIndex(normalizedFull)
      thinking1 == Trim(SubSeq(normalizedFull, 1, idx - 1))
      answer1 == TrimStart(SubSeq(normalizedFull, idx + 2, Len(normalizedFull)))
      chunks == NormalizeEach(deltaHistory)
      thinking2 == Trim(Head(chunks))
      answer2 == TrimStart(normalizeNewlines(JoinChunks(Tail(chunks))))
  IN IF Trim(normalizedFull) = <<>>
       THEN [answer |-> <<>>, thinking |-> <<>>]
     ELSE IF idx # 0 /\ thinking1 # <<>> /\ Trim(answer1) # <<>>
       THEN [answer |-> answer1, thinking |-> thinking1]
     ELSE IF Len(deltaHistory) > 1 /\ thinking2 # <<>> /\ Trim(answer2) # <<>>
       THEN [answer |-> answer2, thinking |-> thinking2]
     ELSE [answer |-> TrimStart(normalizedFull), thinking |-> <<>>]

\* --------------------------------------------------------------- messages
RECURSIVE DedupeFrom(_, _)
DedupeFrom(messages, seen) ==
  IF messages = <<>> THEN <<>>
  ELSE IF Head(messages).id \in seen
       THEN DedupeFrom(Tail(messages), seen)
       ELSE <<Head(messages)>> \o DedupeFrom(Tail(messages), seen \cup {Head(messages).id})

dedupeMessagesById(messages) == DedupeFrom(messages, {})

RECURSIVE LastAssistantIndex(_, _)
\* for (i = length - 1; i >= 0; i--) if role === 'assistant' ...; 0 when absent
LastAssistantIndex(messages, i) ==
  IF i = 0 THEN 0
  ELSE IF messages[i].role = "assistant" THEN i
  ELSE LastAssistantIndex(messages, i - 1)

RemoveAt(s, i) == SubSeq(s, 1, i - 1) \o SubSeq(s, i + 1, Len(s))

\* splice(i, 1) of the last assistant message, if any
RemoveLastAssistant(messages) ==
  LET i == LastAssistantIndex(messages, Len(messages))
  IN IF i = 0 THEN messages ELSE RemoveAt(messages, i)


\* ------------------------------------------------------------------ state
VARIABLES
  isMounted,                \* isMountedRef.current
  messages,                 \* messages / messagesRef.current
  messagesArray,            \* which array object messagesRef.current is
  isStreaming,              \* isStreaming
  streamingDeltas,          \* streamingDeltas / streamingDeltaHistoryRef.current
  messageQueue,             \* messageQueue / messageQueueRef.current
  isProcessingQueueRef,     \* isProcessingQueue / isProcessingQueueRef.current
  activeQueuedId,           \* activeQueuedId, 0 for null
  isSendingRef,             \* isSendingRef.current
  lastSubmittedMessageRef,  \* lastSubmittedMessageRef.current, optional
  queueExpanded,            \* queueExpanded
  clearPreviousAssistant,   \* clearPreviousAssistant / clearPreviousAssistantRef.current
  duplicateTestConfig,      \* module variable duplicateTestConfig, optional
  sessionRef,               \* sessionRef.current, optional
  sends,                    \* running sendMessageToAPI calls, by turnId
  timers,                   \* pending setTimeout(processQueue, 100): ticks left
  clearsPending,            \* handleClearHistory calls awaiting clearElementChatHistory
  nSubmitted,               \* history: how many submissions were accepted
  dispatched,               \* history: turnIds in the order sendMessageToAPI was called
  removed,                  \* history: queue entries removed or cleared by the user
  outcome,                  \* history: how each dispatched turn ended: "pending", "stored",
                            \* "empty", "error", "abandoned" (stream dropped after the
                            \* unmount), "unreported" (failure after the unmount)
  lastAccepted,             \* history: the last accepted submission and its age, optional
  clearedIds,               \* history: the ids of the messages that a clear of the
                            \* history took out of the message list
  dequeues,                 \* history: how many entries processQueue has taken from
                            \* the queue (2 for several) and the ticks since the last
  callArgs,                 \* the arguments of a function applied on its own, optional
  callResult,               \* what that function returned, optional
  position,                 \* position / positionRef.current, in half pixels
  windowSize,               \* windowSize / windowSizeRef.current
  collapseState,            \* collapseState / collapseStateRef.current
  anchorOffset,             \* anchorOffset / anchorOffsetRef.current, optional
  anchorOffsetsRef,         \* anchorOffsetsRef.current: anchor key -> optional offset
  activeAnchorKey,          \* activeAnchorKey / activeAnchorKeyRef.current
  isDraggingRef,            \* isDraggingRef.current
  anchorElementRef,         \* anchorElementRef.current: the anchor it is, optional
  anchorElementMissing,     \* anchorElementMissing
  saveTimeoutRef,           \* the pending setTimeout of saveSession: ticks left, optional
  saving,                   \* calls of saveElementChat that have not returned yet
  storage,                  \* the session as the storage holds it, optional
  closing,                  \* handleRequestClose is waiting for persistSessionState
  anchorRects,              \* the page: anchor key -> the element's rectangle, optional
  userDragging,             \* history: the user is holding the window's drag handle
  sinceMutation,            \* history: ticks since the save effect last ran
  lastMutated,              \* history: the state the save effect last saw, optional
  nMutations,               \* history: how many times the user changed the window
  lastOp,                   \* history: what the user last did to the window (select
                            \* an anchor, resize, collapse, expand), as which of the
                            \* run's changes, and what it found; optional
  lastDrop,                 \* history: where the user last dropped the window and
                            \* whether the drop measured an anchor that was in the
                            \* page; optional, none once the page has changed or
                            \* another anchor was selected since
  indicators,               \* the indicator service's map: key -> entry
  badges,                   \* the badges in document.body: badge -> its display
  hiddenChats,              \* the indicator service's set of hidden chats
  rafHandle,                \* whether a refresh is requested for the next frame
  initialized,              \* whether the service's listeners are installed
  nextBadge,                \* the next badge that createBadge makes
  domElements,              \* the page: descriptor id -> "present", "zero" or "absent"
  openChats,                \* history: the chats whose window is open
  registered,               \* history: the (chat, descriptor id) pairs registered
  lastIndicatorOp,          \* history: the service's last call, optional
  nIndicatorOps,            \* history: how many calls the service has had
  refreshRequests,          \* the service's callbacks that wait for the next frame
  animationFrameRef,        \* animationFrameRef.current: "none", or whether the
                            \* callback it names is "pending" or "ran"
  anchorRequests,           \* the window's callbacks that wait for the next frame
  eventsSinceFrame,         \* history: the scroll, resize and mutation events that
                            \* each side has heard since its callbacks last ran: 0,
                            \* 1, or 2 for several
  lastFrame                 \* history: the last animation frame: whose callbacks it
                            \* ran, how many, after how many events, and the badges
                            \* before it; optional

\* the state of the chat: the queue, the conversation and the running calls
chatVars == <<isMounted, messages, messagesArray, isStreaming, streamingDeltas,
              messageQueue, isProcessingQueueRef, activeQueuedId, isSendingRef,
              lastSubmittedMessageRef, queueExpanded, clearPreviousAssistant,
              duplicateTestConfig, sessionRef, sends, timers, clearsPending,
              nSubmitted, dispatched, removed, outcome, lastAccepted, dequeues,
              clearedIds>>

\* the chats and the described elements that the indicator service is asked about
ChatIds == {"s1", "s2"}
DescriptorIds == {"d1", "d2"}

\* a function applied on its own
callVars == <<callArgs, callResult>>

\* the state of the window, of its persistence and of the page around it
winVars == <<position, windowSize, collapseState, anchorOffset, anchorOffsetsRef,
             activeAnchorKey, isDraggingRef, anchorElementRef, anchorElementMissing,
             saveTimeoutRef, saving, storage, closing, anchorRects, userDragging,
             sinceMutation, lastMutated, nMutations, lastOp, lastDrop>>

\* the state of the indicator service, of the page's badges and elements
frameVars == <<animationFrameRef, anchorRequests, eventsSinceFrame, lastFrame>>

serviceVars == <<indicators, badges, hiddenChats, rafHandle, initialized, nextBadge,
                 domElements, openChats, registered, lastIndicatorOp, nIndicatorOps,
                 refreshRequests, frameVars>>

vars == <<isMounted, messages, messagesArray, isStreaming, streamingDeltas, messageQueue,
          isProcessingQueueRef, activeQueuedId, isSendingRef,
          lastSubmittedMessageRef, queueExpanded, clearPreviousAssistant,
          duplicateTestConfig, sessionRef, sends, timers, clearsPending,
          nSubmitted, dispatched, removed, outcome, lastAccepted, dequeues, clearedIds,
          callArgs, callResult,
          position, windowSize, collapseState, anchorOffset, anchorOffsetsRef,
          activeAnchorKey, isDraggingRef, anchorElementRef, anchorElementMissing,
          saveTimeoutRef, saving, storage, closing, anchorRects, userDragging,
          sinceMutation, lastMutated, nMutations, lastOp, lastDrop,
          indicators, badges, hiddenChats, rafHandle, initialized, nextBadge,
          domElements, openChats, registered, lastIndicatorOp, nIndicatorOps,
          refreshRequests, animationFrameRef, anchorRequests, eventsSinceFrame,
          lastFrame>>

\* The whole state as one record, so that a handler is a function on it.
Mach ==
  [isMounted |-> isMounted, messages |-> messages, messagesArray |-> messagesArray,
   isStreaming |-> isStreaming,
   streamingDeltas |-> streamingDeltas, messageQueue |-> messageQueue,
   isProcessingQueueRef |-> isProcessingQueueRef, activeQueuedId |-> activeQueuedId,
   isSendingRef |-> isSendingRef, lastSubmittedMessageRef |-> lastSubmittedMessageRef,
   queueExpanded |-> queueExpanded, clearPreviousAssistant |-> clearPreviousAssistant,
   duplicateTestConfig |-> duplicateTestConfig, sessionRef |-> sessionRef,
   sends |-> sends, timers |-> timers, clearsPending |-> clearsPending,
   nSubmitted |-> nSubmitted, dispatched |-> dispatched, removed |-> removed,
   outcome |-> outcome, lastAccepted |-> lastAccepted, dequeues |-> dequeues,
   clearedIds |-> clearedIds]

\* the chat's part of the next state is the machine m
AssignChat(m) ==
  /\ isMounted' = m.isMounted
  /\ messages' = m.messages
  /\ messagesArray' = m.messagesArray
  /\ isStreaming' = m.isStreaming
  /\ streamingDeltas' = m.streamingDeltas
  /\ messageQueue' = m.messageQueue
  /\ isProcessingQueueRef' = m.isProcessingQueueRef
  /\ activeQueuedId' = m.activeQueuedId
  /\ isSendingRef' = m.isSendingRef
  /\ lastSubmittedMessageRef' = m.lastSubmittedMessageRef
  /\ queueExpanded' = m.queueExpanded
  /\ clearPreviousAssistant' = m.clearPreviousAssistant
  /\ duplicateTestConfig' = m.duplicateTestConfig
  /\ sessionRef' = m.sessionRef
  /\ sends' = m.sends
  /\ timers' = m.timers
  /\ clearsPending' = m.clearsPending
  /\ nSubmitted' = m.nSubmitted
  /\ dispatched' = m.dispatched
  /\ removed' = m.removed
  /\ outcome' = m.outcome
  /\ lastAccepted' = m.lastAccepted
  /\ dequeues' = m.dequeues
  /\ clearedIds' = m.clearedIds

\* the next state is the machine m
Assign(m) ==
  /\ AssignChat(m)
  /\ UNCHANGED callVars
  /\ UNCHANGED winVars
  /\ UNCHANGED serviceVars

\* A handler runs to its end and its result is the next state.
Commit(machine) == \E m \in {machine} : Assign(m)

\* ---------------------------------------------------------------- inputs
\* what the user can have typed and attached (the dataURLs of the images): a blank
\* and nothing, "a " and nothing, a blank and one image
Inputs == {[text |-> <<" ">>, images |-> <<>>],
           [text |-> <<"a", " ">>, images |-> <<>>],
           [text |-> <<" ">>, images |-> <<"img">>]}
\* fragments the backend can stream
Chunks == {<<" ">>, <<"x">>}
\* payloads of the __NABOKOV_TEST_FORCE_DUPLICATE__ window message
DuplicateConfigs ==
  {[duplicate |-> TRUE, persist |-> FALSE, mockContent |-> <<"m">>]}

ImageAttached == <<"(Image attached)">>
ErrorText == <<"Error: Could not connect to API.">>

\* ids: `msg-${Date.now()}-${random}` and `queued-...` are unique; a submission's
\* messageId and queue-entry id are its ordinal, and the ids generated for a turn
\* are derived from its turnId.
AssistantId(turnId) == 100 + turnId
ErrorId(turnId) == 200 + turnId
ForcedId(turnId) == 300 + turnId


\* --------------------------------------------------------------- helpers
Without(f, k) == [x \in DOMAIN f \ {k} |-> f[x]]

\* JSON.stringify({content, images: images.map(img => img.dataURL)})
Signature(content, images) == <<content, images>>

\* trimmed || (images.length > 0 ? '(Image attached)' : '')
ContentFor(text, images) ==
  IF Trim(text) # <<>> THEN Trim(text)
  ELSE IF images # <<>> THEN ImageAttached ELSE <<>>

\* Arrays are objects: `session.messages = newMessages` makes the session and the
\* component share one array, and a splice through one name is seen through the
\* other.  An array object is named by where it was created.
InitialArray == <<"initial">>
NewArray(turnId) == <<"new", turnId>>
FinalArray(turnId) == <<"final", turnId>>
ErrorArray(turnId) == <<"error", turnId>>
ClearedArray == <<"cleared">>

\* createElementChatSession(...): a session with no messages yet
createElementChatSession == [messages |-> <<>>, array |-> <<"session">>]

\* assistantTurnMapRef as the effect on [messages] rebuilds it: turnId -> id of the
\* last assistant message carrying it; 0 when the turn has none
TurnMapGet(msgs, turnId) ==
  LET hits == {i \in 1..Len(msgs) : msgs[i].role = "assistant" /\ msgs[i].turnId = turnId}
  IN IF hits = {} THEN 0
     ELSE msgs[CHOOSE i \in hits : \A j \in hits : j <= i].id

\* findIndex(message => message.id === id), 1-based; 0 when absent
FindIndexById(msgs, id) ==
  LET hits == {i \in 1..Len(msgs) : msgs[i].id = id}
  IN IF hits = {} THEN 0 ELSE CHOOSE i \in hits : \A j \in hits : i <= j

\* ------------------------------------------------------- sendMessageToAPI
\* The call up to its first wait for I/O (await addMessageToChat).
StartSend(m, turnId, userMessage, images, via, signature) ==
  [m EXCEPT
     !.isSendingRef = TRUE,
     !.sessionRef = IF @ = None THEN Some(createElementChatSession) ELSE @,
     !.sends = @ @@ (turnId :>
        [via |-> via, pc |-> "start", content |-> ContentFor(userMessage, images),
         images |-> images, signature |-> signature, newMessages |-> <<>>,
         assistantContent |-> <<>>, nChunks |-> 0, finalMessages |-> <<>>]),
     !.dispatched = Append(@, turnId),
     !.outcome = @ @@ (turnId :> "pending")]

processQueue(m) ==
  IF ~m.isMounted THEN m
  ELSE IF m.messageQueue = <<>> \/ m.isProcessingQueueRef THEN m
  ELSE LET nextMessage == Head(m.messageQueue)
           m1 == [m EXCEPT !.messageQueue = Tail(@),
                           !.isProcessingQueueRef = TRUE,
                           !.activeQueuedId = nextMessage.id,
                           !.dequeues = [n |-> IF @.n < 2 THEN @.n + 1 ELSE 2,
                                           age |-> 0]]
       IN StartSend(m1, nextMessage.messageId, nextMessage.content,
                    nextMessage.images, "queue", <<>>)

\* The finally block of sendMessageToAPI.
SendFinally(m) ==
  LET m1 == [m EXCEPT !.isSendingRef = FALSE]
  IN IF ~m1.isMounted THEN m1
     ELSE LET m2 == [m1 EXCEPT !.isStreaming = FALSE]
          IN IF m2.messageQueue # <<>> /\ ~m2.isProcessingQueueRef
             THEN processQueue(m2) ELSE m2

\* processQueue that forgets to schedule the next dequeue
AfterQueuedSendNoTimer(m) ==
  [m EXCEPT !.activeQueuedId = 0, !.isProcessingQueueRef = FALSE]

\* processQueue after `await sendMessageToAPI(...)`.
AfterQueuedSend(m) ==
  LET m1 == [m EXCEPT !.activeQueuedId = 0, !.isProcessingQueueRef = FALSE]
  IN IF m1.messageQueue # <<>>
     THEN [m1 EXCEPT !.timers = Append(@, DequeueDelay)] ELSE m1

\* handleSendMessage after `await sendMessageToAPI(...)`.
AfterDirectSend(m, turnId, signature) ==
  LET m1 == [m EXCEPT !.lastSubmittedMessageRef =
                 Some([signature |-> signature, age |-> 0, messageId |-> turnId])]
  IN IF m1.messageQueue # <<>> THEN processQueue(m1) ELSE m1

\* The call `turnId` returns with `how`: its finally block, then its caller resumes.
EndSend(m, turnId, how) ==
  LET send == m.sends[turnId]
      m1 == [m EXCEPT !.sends = Without(@, turnId),
                      !.outcome = [@ EXCEPT ![turnId] = how]]
      m2 == SendFinally(m1)
  IN IF send.via = "queue" THEN AfterQueuedSend(m2)
     ELSE AfterDirectSend(m2, turnId, send.signature)


UserEntry(turnId, send) ==
  [id |-> turnId, role |-> "user", content |-> send.content, turnId |-> turnId,
   thinking |-> <<>>, images |-> send.images]

AssistantEntry(id, turnId, content, thinking) ==
  [id |-> id, role |-> "assistant", content |-> content, turnId |-> turnId,
   thinking |-> thinking, images |-> <<>>]

\* the error message of the catch block: no turnId (0)
ErrorEntry(turnId) == AssistantEntry(ErrorId(turnId), 0, ErrorText, <<>>)

\* { ...message, content, thinking, timestamp, turnId }
Updated(message, turnId, content, thinking) ==
  [message EXCEPT !.content = content, !.thinking = thinking, !.turnId = turnId]

\* shouldForceDuplicate
ShouldForceDuplicate(config) == config # None /\ config[1].duplicate

\* assistantContent, replaced by the test configuration's mockContent when blank
WithMockContent(assistantContent, config) ==
  IF Trim(assistantContent) = <<>> /\ config # None /\ config[1].mockContent # <<>>
  THEN config[1].mockContent ELSE assistantContent

\* assistantContentForStorage
ContentForStorage(assistantContent, deltaHistory) ==
  LET answer == separateAssistantResponse(assistantContent, deltaHistory).answer
  IN IF Trim(answer) # <<>> THEN answer ELSE TrimStart(assistantContent)

\* assistantThinkingForStorage
ThinkingForStorage(assistantContent, deltaHistory) ==
  LET sep == separateAssistantResponse(assistantContent, deltaHistory)
  IN IF Trim(sep.answer) # <<>> /\ sep.thinking # <<>> THEN Trim(sep.thinking) ELSE <<>>

\* an emptiness test that never fires
NeverEmpty(content) == FALSE

\* !normalisedAssistant
IsEmptyAnswer(content) == Trim(content) = <<>>

\* turn correlation that always appends a new assistant message
StoreAnswerAppend(baseMessages, existingId, turnId, content, thinking, rawTrimmed) ==
  [finalMessages |-> dedupeMessagesById(
       Append(baseMessages,
              AssistantEntry(AssistantId(turnId), turnId, content, thinking))),
   awaits |-> TRUE, replaced |-> 0]

\* turn correlation that moves the message of the turn to the end of the list
StoreAnswerMoveToEnd(baseMessages, existingId, turnId, content, thinking, rawTrimmed) ==
  LET existingIndex == IF existingId # 0 THEN FindIndexById(baseMessages, existingId) ELSE 0
  IN [finalMessages |->
        IF existingIndex > 0
        THEN Append(RemoveAt(baseMessages, existingIndex),
                    Updated(baseMessages[existingIndex], turnId, content, thinking))
        ELSE Append(baseMessages,
                    AssistantEntry(AssistantId(turnId), turnId, content, thinking)),
      awaits |-> TRUE, replaced |-> existingId]

\* Turn correlation (the three branches that build finalMessages): `existingId` is
\* assistantTurnMapRef.current.get(turnId), 0 when absent.  `awaits` says whether the
\* branch waits for addMessageToChat before the list is committed, `replaced` which
\* message the branch also replaces inside session.messages (0: none).
StoreAnswer(baseMessages, existingId, turnId, content, thinking, rawTrimmed) ==
  LET existingIndex == IF existingId # 0 THEN FindIndexById(baseMessages, existingId) ELSE 0
      n == Len(baseMessages)
      lastMessage == baseMessages[n]
  IN IF existingIndex > 0
     THEN [finalMessages |-> dedupeMessagesById(
               [i \in 1..n |-> IF baseMessages[i].id = existingId
                               THEN Updated(baseMessages[i], turnId, content, thinking)
                               ELSE baseMessages[i]]),
           awaits |-> TRUE, replaced |-> existingId]
     ELSE IF n > 0 /\ lastMessage.role = "assistant" /\ Trim(lastMessage.content) # <<>>
             /\ (Trim(lastMessage.content) = Trim(content)
                 \/ Trim(lastMessage.content) = rawTrimmed)
     THEN [finalMessages |-> dedupeMessagesById(
               Append(SubSeq(baseMessages, 1, n - 1),
                      Updated(lastMessage, turnId, content, thinking))),
           awaits |-> FALSE, replaced |-> lastMessage.id]
     ELSE [finalMessages |-> dedupeMessagesById(
               Append(baseMessages,
                      AssistantEntry(AssistantId(turnId), turnId, content, thinking))),
           awaits |-> TRUE, replaced |-> 0]

\* session.messages = msgs, the array object `array`
SetSessionMessages(m, msgs, array) ==
  [m EXCEPT !.sessionRef =
     IF @ = None THEN @ ELSE Some([@[1] EXCEPT !.messages = msgs, !.array = array])]

\* setMessages(msgs); messagesRef.current = msgs; session.messages = msgs
SetAllMessages(m, msgs, array) ==
  [SetSessionMessages(m, msgs, array) EXCEPT !.messages = msgs, !.messagesArray = array]

\* An in-place change of the array session.messages, which then holds `msgs`: every
\* name of that array object sees it (messagesRef.current, the newMessages of a
\* running call).
InPlace(m, msgs) ==
  IF m.sessionRef = None THEN m
  ELSE LET array == m.sessionRef[1].array
       IN [m EXCEPT
             !.sessionRef = Some([@[1] EXCEPT !.messages = msgs]),
             !.messages = IF m.messagesArray = array THEN msgs ELSE @,
             !.sends = [t \in DOMAIN m.sends |->
                          IF array = NewArray(t)
                          THEN [m.sends[t] EXCEPT !.newMessages = msgs]
                          ELSE m.sends[t]]]

\* session.messages[sessionIndex] = message, where sessionIndex finds message.id
ReplaceById(msgs, message) ==
  LET i == FindIndexById(msgs, message.id)
  IN IF i = 0 THEN msgs ELSE [msgs EXCEPT ![i] = message]

\* The lines after the stream has ended, for a mounted window (1066-1224).
AfterStream(m, turnId) ==
  LET config == m.duplicateTestConfig
      clear == m.clearPreviousAssistant
      \* 1066-1073: splice the last assistant message out of session.messages
      m1 == IF clear /\ m.sessionRef # None
            THEN InPlace(m, RemoveLastAssistant(m.sessionRef[1].messages)) ELSE m
      send == m1.sends[turnId]
      assistantContent == WithMockContent(send.assistantContent, config)
      base0 == IF clear THEN RemoveLastAssistant(send.newMessages) ELSE send.newMessages
      content == ContentForStorage(assistantContent, m.streamingDeltas)
      thinking == ThinkingForStorage(assistantContent, m.streamingDeltas)
      force == ShouldForceDuplicate(config)
      base == IF force
              THEN Append(base0, AssistantEntry(ForcedId(turnId), turnId, content, thinking))
              ELSE base0
      existingId == IF force THEN ForcedId(turnId) ELSE TurnMapGet(m1.messages, turnId)
      m2 == IF force /\ ~config[1].persist
            THEN [m1 EXCEPT !.duplicateTestConfig = None] ELSE m1
      stored == StoreAnswer(base, existingId, turnId, content, thinking,
                            Trim(assistantContent))
      final == stored.finalMessages
      m3 == IF stored.replaced = 0 \/ FindIndexById(final, stored.replaced) = 0
               \/ m2.sessionRef = None
            THEN m2
            ELSE InPlace(m2, ReplaceById(m2.sessionRef[1].messages,
                                         final[FindIndexById(final, stored.replaced)]))
  IN IF IsEmptyAnswer(content)
     THEN \* 1105-1108: resetStreamingSnapshot(true); return
          EndSend([m1 EXCEPT !.streamingDeltas = <<>>], turnId, "empty")
     ELSE IF stored.awaits
     THEN [m3 EXCEPT !.sends[turnId].pc = "storing",
                     !.sends[turnId].finalMessages = final]
     ELSE EndSend([SetAllMessages(m3, final, FinalArray(turnId)) EXCEPT
                     !.streamingDeltas = <<>>], turnId, "stored")


\* a catch block that swallows the failure
CatchBlockSilent(m, turnId) ==
  EndSend([m EXCEPT !.streamingDeltas = <<>>], turnId,
          IF m.isMounted THEN "error" ELSE "unreported")

\* The catch block of sendMessageToAPI (1239-1255), then the call returns.
CatchBlock(m, turnId) ==
  IF ~m.isMounted THEN EndSend(m, turnId, "unreported")
  ELSE EndSend([m EXCEPT
                  !.streamingDeltas = <<>>,
                  !.messages = dedupeMessagesById(Append(@, ErrorEntry(turnId))),
                  !.messagesArray = ErrorArray(turnId)],
               turnId, "error")

\* ------------------------------------------------------- handleSendMessage
\* lastSubmission && lastSubmission.signature === signature && now - timestamp < 1500
IsDuplicateSubmission(lastSubmission, signature) ==
  /\ lastSubmission # None
  /\ lastSubmission[1].signature = signature
  /\ lastSubmission[1].age < DedupeWindow

\* isStreaming || isProcessingQueueRef.current || isSendingRef.current
IsBusy(m) == m.isStreaming \/ m.isProcessingQueueRef \/ m.isSendingRef

\* setMessageQueue(prev => prev.some(same messageId) ? prev : [...prev, queuedMessage])
Enqueue(queue, queuedMessage) ==
  IF \E i \in 1..Len(queue) : queue[i].messageId = queuedMessage.messageId
  THEN queue ELSE Append(queue, queuedMessage)

handleSendMessage(m, text, images) ==
  LET content == ContentFor(text, images)
      signature == Signature(content, images)
      messageId == m.nSubmitted + 1
      queuedMessage == [id |-> messageId, content |-> content, images |-> images,
                        messageId |-> messageId]
      m1 == [m EXCEPT !.lastSubmittedMessageRef =
                         Some([signature |-> signature, age |-> 0, messageId |-> messageId]),
                      !.nSubmitted = messageId,
                      !.lastAccepted = Some([signature |-> signature, age |-> 0])]
  IN IF Trim(text) = <<>> /\ images = <<>> THEN m
     ELSE IF IsDuplicateSubmission(m.lastSubmittedMessageRef, signature) THEN m
     ELSE IF IsBusy(m)
     THEN [m1 EXCEPT !.messageQueue = Enqueue(@, queuedMessage),
                     !.queueExpanded = TRUE]
     ELSE StartSend(m1, messageId, content, images, "direct", signature)

\* ---------------------------------------------------------------- queue
\* a filter that keeps every entry
KeepInQueue(queue, id) == queue

\* prev.filter(message => message.id !== id)
RemoveFromQueue(queue, id) == SelectSeq(queue, LAMBDA e : e.id # id)

QueueIds(queue) == {queue[i].id : i \in 1..Len(queue)}

handleClearQueue(m) ==
  [m EXCEPT !.removed = @ \cup QueueIds(m.messageQueue),
            !.messageQueue = <<>>,
            !.activeQueuedId = 0]

\* clearElementChatHistory(session): the session with its messages cleared
clearElementChatHistory(session) ==
  [session EXCEPT !.messages = <<>>, !.array = <<"clearedSession">>]

\* handleClearHistory from setMessages([]) on
ClearedHistory(m) ==
  handleClearQueue([m EXCEPT !.messages = <<>>, !.messagesArray = ClearedArray,
                             !.streamingDeltas = <<>>,
                             !.clearedIds = @ \cup {m.messages[i].id :
                                                      i \in 1..Len(m.messages)}])

\* ------------------------------------------------------------------ time
Min(a, b) == IF a < b THEN a ELSE b
Max(a, b) == IF a > b THEN a ELSE b

\* a timestamp's age after d more ticks; ages beyond the window are not told apart
Older(stamp, d) ==
  IF stamp = None THEN stamp
  ELSE Some([stamp[1] EXCEPT !.age = Min(@ + d, DedupeWindow)])

\* d ticks pass
Elapse(m, d) ==
  [m EXCEPT
     !.lastSubmittedMessageRef = Older(@, d),
     !.lastAccepted = Older(@, d),
     !.dequeues = [@ EXCEPT !.age = Min(@ + d, DequeueDelay)],
     !.timers = [i \in 1..Len(@) |-> Max(@[i] - d, 0)]]

\* ----------------------------------------------------------------- window
\* a point or an offset, in half pixels
Pt(x, y) == [x |-> x, y |-> y]
Plus(a, b) == Pt(a.x + b.x, a.y + b.y)
Minus(a, b) == Pt(a.x - b.x, a.y - b.y)
Abs(n) == IF n < 0 THEN 0 - n ELSE n

\* descriptorList, each descriptor named by its key (the keys are distinct)
descriptorList == <<"A", "B", "C">>
AnchorKeys == Elements(descriptorList)

\* where the anchors sit in the page, and how far the page can be scrolled
AnchorBase == [k \in AnchorKeys |->
                 IF k = "A" THEN Pt(4, 4) ELSE IF k = "B" THEN Pt(4, 5) ELSE Pt(8, 4)]
Scrolls == {Pt(0, 0), Pt(0, 1), Pt(0, 4)}
\* which anchors can be in the page together
Presents == {{"A", "B", "C"}, {"B", "C"}, {"C"}, {}}

\* the width of each anchor's element, in half pixels
AnchorWidth == [k \in AnchorKeys |->
                  IF k = "A" THEN 100 ELSE IF k = "B" THEN 600 ELSE 200]

\* the anchors in `present` are in the page, which is scrolled by `scroll`
PageRects(present, scroll) ==
  [k \in AnchorKeys |-> IF k \in present THEN Some(Minus(AnchorBase[k], scroll)) ELSE None]

\* the window part of the state as a record; `touched` and `offsetSet` say which
\* setters the running handler has called (setPosition / setWindowSize /
\* setAnchorOffset with a new object, setAnchorOffset)
WinRec ==
  [position |-> position, windowSize |-> windowSize, collapseState |-> collapseState,
   anchorOffset |-> anchorOffset, anchorOffsetsRef |-> anchorOffsetsRef,
   activeAnchorKey |-> activeAnchorKey, isDraggingRef |-> isDraggingRef,
   anchorElementRef |-> anchorElementRef, anchorElementMissing |-> anchorElementMissing,
   saveTimeoutRef |-> saveTimeoutRef, saving |-> saving, storage |-> storage,
   closing |-> closing, anchorRects |-> anchorRects, userDragging |-> userDragging,
   sinceMutation |-> sinceMutation, lastMutated |-> lastMutated,
   nMutations |-> nMutations, lastOp |-> lastOp, lastDrop |-> lastDrop,
   touched |-> FALSE, offsetSet |-> FALSE]

\* the whole component: the chat and the window
Win == Mach @@ WinRec

AssignWin(w) ==
  /\ position' = w.position
  /\ windowSize' = w.windowSize
  /\ collapseState' = w.collapseState
  /\ anchorOffset' = w.anchorOffset
  /\ anchorOffsetsRef' = w.anchorOffsetsRef
  /\ activeAnchorKey' = w.activeAnchorKey
  /\ isDraggingRef' = w.isDraggingRef
  /\ anchorElementRef' = w.anchorElementRef
  /\ anchorElementMissing' = w.anchorElementMissing
  /\ saveTimeoutRef' = w.saveTimeoutRef
  /\ saving' = w.saving
  /\ storage' = w.storage
  /\ closing' = w.closing
  /\ anchorRects' = w.anchorRects
  /\ userDragging' = w.userDragging
  /\ sinceMutation' = w.sinceMutation
  /\ lastMutated' = w.lastMutated
  /\ nMutations' = w.nMutations
  /\ lastDrop' = w.lastDrop
  /\ lastOp' = w.lastOp

\* the window part of the state is that of w
WinIs(w) ==
  /\ position = w.position
  /\ windowSize = w.windowSize
  /\ collapseState = w.collapseState
  /\ anchorOffset = w.anchorOffset
  /\ anchorOffsetsRef = w.anchorOffsetsRef
  /\ activeAnchorKey = w.activeAnchorKey
  /\ isDraggingRef = w.isDraggingRef
  /\ anchorElementRef = w.anchorElementRef
  /\ anchorElementMissing = w.anchorElementMissing
  /\ saveTimeoutRef = w.saveTimeoutRef
  /\ saving = w.saving
  /\ storage = w.storage
  /\ closing = w.closing
  /\ anchorRects = w.anchorRects
  /\ userDragging = w.userDragging
  /\ sinceMutation = w.sinceMutation
  /\ lastMutated = w.lastMutated
  /\ nMutations = w.nMutations
  /\ lastDrop = w.lastDrop
  /\ lastOp = w.lastOp

\* the descriptors as listed, whichever anchor is active
listedDescriptors(activeKey) == descriptorList

\* priorityDescriptors: the active anchor's descriptor, then the others as listed
priorityDescriptors(activeKey) ==
  (IF activeKey \in AnchorKeys THEN <<activeKey>> ELSE <<>>)
    \o SelectSeq(descriptorList, LAMBDA k : k # activeKey)

RECURSIVE FirstResolved(_, _)
\* the loop over priorityDescriptors: the first descriptor that
\* resolveElementForDescriptor finds in the page, optional
FirstResolved(descriptors, rects) ==
  IF descriptors = <<>> THEN None
  ELSE IF rects[Head(descriptors)] # None THEN Some(Head(descriptors))
  ELSE FirstResolved(Tail(descriptors), rects)

\* One repositioning tick.
ensureAnchorPosition(w) ==
  LET resolved == FirstResolved(priorityDescriptors(w.activeAnchorKey), w.anchorRects)
  IN IF ~w.isMounted THEN w
     ELSE IF resolved = None
     THEN [w EXCEPT !.anchorElementRef = None, !.anchorElementMissing = TRUE]
     ELSE LET resolvedKey == resolved[1]
              rect == w.anchorRects[resolvedKey][1]
              w1 == [w EXCEPT !.anchorElementRef = resolved,
                              !.anchorElementMissing = FALSE,
                              !.activeAnchorKey = resolvedKey]
              \* 788-805: no offset yet, infer it from where the window is
              inferredOffset == Minus(w.position, rect)
              w2 == IF w1.anchorOffset = None
                    THEN [w1 EXCEPT !.anchorOffset = Some(inferredOffset),
                                    !.anchorOffsetsRef[resolvedKey] = Some(inferredOffset),
                                    !.touched = TRUE, !.offsetSet = TRUE]
                    ELSE w1
              nextPosition == Plus(rect, w2.anchorOffset[1])
              \* 807-827
              w3 == IF ~w2.isDraggingRef
                       /\ (Abs(nextPosition.x - w2.position.x) > Epsilon
                           \/ Abs(nextPosition.y - w2.position.y) > Epsilon)
                    THEN [w2 EXCEPT !.position = nextPosition, !.touched = TRUE]
                    ELSE w2
          IN \* 829-831
             [w3 EXCEPT !.anchorOffsetsRef[resolvedKey] = w3.anchorOffset]

\* the ticks the effects run after a render: the layout effect when
\* ensureAnchorPosition is a new function (anchorElementMissing changed), the
\* effect on [anchorOffset, ensureAnchorPosition]
TicksAfterRender(old, new) ==
  IF new.isMounted /\ (new.offsetSet \/ new.anchorElementMissing # old.anchorElementMissing)
  THEN LET t == ensureAnchorPosition(new)
       IN IF t.anchorOffset # new.anchorOffset
             \/ t.anchorElementMissing # new.anchorElementMissing
          THEN ensureAnchorPosition(t) ELSE t
  ELSE new

\* session.windowState as persistSessionState writes it
WindowStateOf(w) ==
  [position |-> w.position, size |-> w.windowSize, collapseState |-> w.collapseState,
   anchorOffset |-> w.anchorOffset, queueExpanded |-> w.queueExpanded,
   clearPreviousAssistant |-> w.clearPreviousAssistant,
   activeAnchorKey |-> w.activeAnchorKey]

\* what saveElementChat is given
SessionSnapshot(w) == [messages |-> w.messages, windowState |-> WindowStateOf(w)]

\* a saveSession that keeps the deadline of a save already pending
saveSessionKeepDeadline(w) ==
  [w EXCEPT !.saveTimeoutRef = IF @ = None THEN Some(SaveDelay) ELSE @,
            !.sinceMutation = 0,
            !.lastMutated = Some([session |-> SessionSnapshot(w),
                                  run |-> IF @ = None THEN 1 ELSE 2])]

\* saveSession(): clearTimeout, then setTimeout(persistSessionState, 500)
\* (history: the state this mutation leaves, and whether it is the first of its run
\* or a later one)
saveSession(w) ==
  [w EXCEPT !.saveTimeoutRef = Some(SaveDelay),
            !.sinceMutation = 0,
            !.lastMutated = Some([session |-> SessionSnapshot(w),
                                  run |-> IF @ = None THEN 1 ELSE 2])]

\* the dependencies of the save effect that are compared by value
SaveDeps(w) ==
  <<w.messages, w.messagesArray, w.collapseState, w.queueExpanded,
    w.clearPreviousAssistant>>

\* a save effect that watches the messages alone
SaveEffectMessagesOnly(old, new) ==
  IF new.isMounted /\ (new.messages # old.messages \/ new.messagesArray # old.messagesArray)
     /\ (new.messages # <<>> \/ new.sessionRef # None)
  THEN saveSession(new) ELSE new

\* the save effect after a render
SaveEffect(old, new) ==
  IF new.isMounted /\ (new.touched \/ SaveDeps(new) # SaveDeps(old))
     /\ (new.messages # <<>> \/ new.sessionRef # None)
  THEN saveSession(new) ELSE new

\* a handler has run from the state `old` to `new`: the component renders and its
\* effects run
AfterRender(old, new) == SaveEffect(old, TicksAfterRender(old, new))

\* A handler of the whole component runs to its end, the effects of the render
\* that follows included, and the result is the next state.
CommitWin(w) ==
  \E m \in {AfterRender(Win, w)} : AssignChat(m) /\ AssignWin(m) /\ UNCHANGED <<callVars, serviceVars>>

\* persistSessionState(), up to the call of saveElementChat
persistSessionState(w, via) ==
  LET session == IF w.sessionRef = None THEN createElementChatSession
                 ELSE w.sessionRef[1]
  IN [w EXCEPT
        !.sessionRef = Some([session EXCEPT !.messages = w.messages,
                                            !.array = w.messagesArray]),
        !.saving = Append(@, [session |-> SessionSnapshot(w), via |-> via,
                              run |-> IF w.lastMutated = None THEN 0
                                      ELSE w.lastMutated[1].run])]

\* the callback of the save timer
SaveTimeout(w) ==
  [persistSessionState([w EXCEPT !.saveTimeoutRef = None], "timer")
     EXCEPT !.lastMutated = None]

\* the cleanup effect of the unmount
Cleanup(w) == [w EXCEPT !.isMounted = FALSE, !.saveTimeoutRef = None]

\* a close that calls onClose without the final save
handleRequestCloseNoSave(w) == Cleanup(w)

\* handleRequestClose, up to `await persistSessionState()`
handleRequestClose(w) ==
  persistSessionState([w EXCEPT !.saveTimeoutRef = None, !.closing = TRUE], "close")

handleDragStart(w) == [w EXCEPT !.isDraggingRef = TRUE]

\* a drag stop or resize stop that caches the new offset for every anchor
OffsetForEveryAnchor(w, nextPosition) ==
  IF w.anchorElementRef = None THEN w
  ELSE LET inPage == w.anchorRects[w.anchorElementRef[1]]
           rect == IF inPage = None THEN Pt(0, 0) ELSE inPage[1]
           offset == Minus(nextPosition, rect)
       IN [w EXCEPT !.anchorOffset = Some(offset), !.offsetSet = TRUE,
                    !.anchorOffsetsRef = [k \in AnchorKeys |-> Some(offset)]]

\* a drag stop or resize stop that records no offset
OffsetKept(w, nextPosition) == w

\* the anchor offset that handleDragStop and handleResizeStop record
OffsetFrom(w, nextPosition) ==
  IF w.anchorElementRef = None THEN w
  ELSE LET inPage == w.anchorRects[w.anchorElementRef[1]]
           \* getBoundingClientRect() of an element taken out of the page is all zeros
           rect == IF inPage = None THEN Pt(0, 0) ELSE inPage[1]
           offset == Minus(nextPosition, rect)
       IN [w EXCEPT !.anchorOffset = Some(offset), !.offsetSet = TRUE,
                    !.anchorOffsetsRef[w.activeAnchorKey] = Some(offset)]

handleDragStop(w, data) ==
  OffsetFrom([w EXCEPT !.isDraggingRef = FALSE, !.position = data, !.touched = TRUE],
             data)

handleResizeStop(w, size, newPosition) ==
  OffsetFrom([w EXCEPT !.windowSize = size, !.position = newPosition, !.touched = TRUE],
             newPosition)

\* the offset a chip click starts from when the anchor has no cached offset: the
\* window's current offset, or without one the default beside the element
UncachedOffset(w, key) ==
  IF w.anchorOffset # None THEN w.anchorOffset[1]
  ELSE Pt(Min(AnchorWidth[key] + DefaultGap, MaxDefaultOffset), 0)

\* a chip click that nudges whether or not the anchor has a cached offset
handleAnchorChipClickNudging(w, key) ==
  LET w1 == [w EXCEPT !.activeAnchorKey = key]
  IN IF w.anchorRects[key] = None THEN ensureAnchorPosition(w1)
     ELSE LET rect == w.anchorRects[key][1]
              storedOffset == w.anchorOffsetsRef[key]
              base == IF storedOffset # None THEN storedOffset[1]
                      ELSE UncachedOffset(w, key)
              nextOffset == Pt(base.x, base.y - ANCHOR_ALIGNMENT_NUDGE_PX)
          IN ensureAnchorPosition(
               [w1 EXCEPT !.anchorElementRef = Some(key),
                          !.anchorElementMissing = FALSE,
                          !.anchorOffset = Some(nextOffset),
                          !.anchorOffsetsRef[key] = Some(nextOffset),
                          !.position = Plus(rect, nextOffset),
                          !.touched = TRUE, !.offsetSet = TRUE])

\* the onClick of an anchor chip: the user makes `key` the active anchor
handleAnchorChipClick(w, key) ==
  LET w1 == [w EXCEPT !.activeAnchorKey = key]
  IN IF w.anchorRects[key] = None THEN ensureAnchorPosition(w1)
     ELSE LET rect == w.anchorRects[key][1]
              storedOffset == w.anchorOffsetsRef[key]
              base == IF storedOffset # None THEN storedOffset[1]
                      ELSE UncachedOffset(w, key)
              nextOffset == IF storedOffset = None
                            THEN Pt(base.x, base.y - ANCHOR_ALIGNMENT_NUDGE_PX)
                            ELSE base
          IN ensureAnchorPosition(
               [w1 EXCEPT !.anchorElementRef = Some(key),
                          !.anchorElementMissing = FALSE,
                          !.anchorOffset = Some(nextOffset),
                          !.anchorOffsetsRef[key] = Some(nextOffset),
                          !.position = Plus(rect, nextOffset),
                          !.touched = TRUE, !.offsetSet = TRUE])

CollapseStates == {"expanded", "rectangle", "square"}

\* the side of the square and the height of the rectangle, in pixels
squareSize == 100
headerOnlyHeight == 44

\* a square button that stores the square's size as the window's size
CollapseStoringSize(w) ==
  [w EXCEPT !.collapseState = IF @ = "square" THEN "expanded" ELSE "square",
            !.windowSize = IF w.collapseState = "square" THEN @
                           ELSE [width |-> squareSize, height |-> squareSize]]

\* a size prop that shows the rectangle with a fixed width
FixedCollapsedSize(w) ==
  [width |-> IF w.collapseState = "expanded" THEN w.windowSize.width ELSE squareSize,
   height |-> IF w.collapseState = "expanded" THEN w.windowSize.height
              ELSE IF w.collapseState = "rectangle" THEN headerOnlyHeight
              ELSE squareSize]

\* a rectangle button that only ever collapses
CollapseOnly(w) == [w EXCEPT !.collapseState = "rectangle"]

handleCollapseToRectangle(w) ==
  [w EXCEPT !.collapseState = IF @ = "rectangle" THEN "expanded" ELSE "rectangle"]

handleCollapseToSquare(w) ==
  [w EXCEPT !.collapseState = IF @ = "square" THEN "expanded" ELSE "square"]

\* the onClick of the square's button
handleExpand(w) == [w EXCEPT !.collapseState = "expanded"]

\* the listener of the test event: any of the three states is set as given
handleTestCollapse(w, nextState) ==
  IF nextState \in CollapseStates THEN [w EXCEPT !.collapseState = nextState] ELSE w

\* the size prop that the window passes to Rnd, in pixels
renderedSize(w) ==
  [width |-> IF w.collapseState = "square" THEN squareSize ELSE w.windowSize.width,
   height |-> IF w.collapseState = "expanded" THEN w.windowSize.height
              ELSE IF w.collapseState = "rectangle" THEN headerOnlyHeight
              ELSE squareSize]

\* the window as the component is constructed without an existing session, before
\* its first effects
NewWindow(rects) ==
  [position |-> Pt(6, 4), windowSize |-> [width |-> 420, height |-> 550],
   collapseState |-> "expanded", anchorOffset |-> None,
   anchorOffsetsRef |-> [k \in AnchorKeys |-> None],
   activeAnchorKey |-> descriptorList[1], isDraggingRef |-> FALSE,
   anchorElementRef |-> None, anchorElementMissing |-> FALSE,
   saveTimeoutRef |-> None, saving |-> <<>>, storage |-> None, closing |-> FALSE,
   anchorRects |-> rects, userDragging |-> FALSE, sinceMutation |-> SaveDelay,
   lastMutated |-> None, nMutations |-> 0, lastOp |-> None, lastDrop |-> None,
   touched |-> FALSE, offsetSet |-> FALSE]

\* the component after it has mounted in a page with the rectangles `rects`: the
\* layout effect has run the first tick
Mounted(rects) ==
  LET w == [isMounted |-> TRUE] @@ NewWindow(rects)
  IN TicksAfterRender(w, [w EXCEPT !.offsetSet = TRUE])

\* a window opened on a page where every anchor is in place
WinInit == WinIs(Mounted(PageRects(AnchorKeys, Pt(0, 0))))

\* ------------------------------------------------------------------- Init
ChatInit ==
  /\ isMounted = TRUE
  /\ messages = <<>>
  /\ messagesArray = InitialArray
  /\ isStreaming = FALSE
  /\ streamingDeltas = <<>>
  /\ messageQueue = <<>>
  /\ isProcessingQueueRef = FALSE
  /\ activeQueuedId = 0
  /\ isSendingRef = FALSE
  /\ lastSubmittedMessageRef = None
  /\ queueExpanded = FALSE
  /\ clearPreviousAssistant = FALSE
  /\ duplicateTestConfig = None
  /\ sessionRef = None
  /\ sends = <<>>
  /\ timers = <<>>
  /\ clearsPending = 0
  /\ nSubmitted = 0
  /\ dispatched = <<>>
  /\ removed = {}
  /\ outcome = <<>>
  /\ lastAccepted = None
  /\ dequeues = [n |-> 0, age |-> DequeueDelay]
  /\ clearedIds = {}

\* the indicator service as its module is loaded, on a page where every described
\* element is in place
ServiceInit ==
  /\ indicators = <<>>
  /\ badges = <<>>
  /\ hiddenChats = {}
  /\ rafHandle = FALSE
  /\ initialized = FALSE
  /\ nextBadge = 1
  /\ domElements = [d \in DescriptorIds |-> "present"]
  /\ openChats = {}
  /\ registered = {}
  /\ lastIndicatorOp = <<>>
  /\ nIndicatorOps = 0
  /\ refreshRequests = 0
  /\ animationFrameRef = "none"
  /\ anchorRequests = 0
  /\ eventsSinceFrame = [refresh |-> 0, anchor |-> 0]
  /\ lastFrame = <<>>

Init ==
  /\ ChatInit
  /\ ServiceInit
  /\ WinInit
  /\ callArgs = None
  /\ callResult = None

\* ---------------------------------------------------------------- actions
\* The user presses Enter or the send button with `input` typed and attached; the
\* run makes at most `limit` accepted submissions.
Submit(input, limit) ==
  /\ isMounted
  /\ nSubmitted < limit
  /\ Commit(handleSendMessage(Mach, input.text, input.images))

\* sendMessageToAPI resumes after addMessageToChat(session, 'user', ...): lines 1002-1041.
AddUser(turnId) ==
  /\ turnId \in DOMAIN sends
  /\ sends[turnId].pc = "start"
  /\ LET newMessages == dedupeMessagesById(Append(messages, UserEntry(turnId, sends[turnId])))
     IN Commit([SetAllMessages(Mach, newMessages, NewArray(turnId)) EXCEPT
                  !.isStreaming = TRUE,
                  !.streamingDeltas = <<>>,
                  !.sends[turnId].newMessages = newMessages,
                  !.sends[turnId].pc = "streaming"])

\* The stream yields one fragment: one turn of the for-await loop.
Chunk(turnId, chunk) ==
  /\ turnId \in DOMAIN sends
  /\ sends[turnId].pc = "streaming"
  /\ sends[turnId].nChunks < MaxChunks
  /\ LET m1 == [Mach EXCEPT !.sends[turnId].assistantContent = @ \o chunk,
                           !.sends[turnId].nChunks = @ + 1]
     IN Commit(IF ~isMounted THEN EndSend(m1, turnId, "abandoned")
               ELSE [m1 EXCEPT !.streamingDeltas = Append(@, chunk)])

\* The stream ends normally.
StreamEnd(turnId) ==
  /\ turnId \in DOMAIN sends
  /\ sends[turnId].pc = "streaming"
  /\ Commit(IF ~isMounted THEN EndSend(Mach, turnId, "abandoned")
            ELSE AfterStream(Mach, turnId))

\* sendMessageToAPI resumes after addMessageToChat(session, 'assistant', ...): 1226-1229.
StoreDone(turnId) ==
  /\ turnId \in DOMAIN sends
  /\ sends[turnId].pc = "storing"
  /\ LET final == sends[turnId].finalMessages
     IN Commit(EndSend([SetAllMessages(Mach, final, FinalArray(turnId)) EXCEPT
                          !.streamingDeltas = <<>>], turnId, "stored"))

\* An awaited call raises (the backend call, the stream, the persistence
\* collaborator): the catch block runs.
Fail(turnId) ==
  /\ turnId \in DOMAIN sends
  /\ Commit(CatchBlock(Mach, turnId))

\* A dequeue timer set by processQueue fires.
TimerFire(i) ==
  /\ i \in 1..Len(timers)
  /\ timers[i] = 0
  /\ Commit(processQueue([Mach EXCEPT !.timers = RemoveAt(@, i)]))

\* 100 ms pass while a dequeue timer is counting down.
Tick ==
  /\ \E i \in 1..Len(timers) : timers[i] > 0
  /\ Commit(Elapse(Mach, 1))

\* The rest of the duplicate-suppression window passes.
WindowElapses ==
  /\ Elapse(Mach, DedupeWindow) # Mach
  /\ Commit(Elapse(Mach, DedupeWindow))

handleRemoveQueuedMessage(id) ==
  /\ isMounted
  /\ id \in QueueIds(messageQueue)
  /\ Commit([Mach EXCEPT !.messageQueue = RemoveFromQueue(@, id),
                         !.removed = @ \cup {id}])

ClearQueue ==
  /\ isMounted
  /\ messageQueue # <<>>
  /\ Commit(handleClearQueue(Mach))

\* handleClearHistory, confirmed by the user, up to `await clearElementChatHistory`.
ClearHistory ==
  /\ isMounted
  /\ messages # <<>> \/ messageQueue # <<>>
  /\ clearsPending < MaxClears
  /\ Commit(IF sessionRef = None THEN ClearedHistory(Mach)
            ELSE [Mach EXCEPT !.clearsPending = @ + 1])

\* handleClearHistory resumes after clearElementChatHistory.
ClearHistoryDone ==
  /\ clearsPending > 0
  /\ Commit(ClearedHistory(
       [Mach EXCEPT !.clearsPending = @ - 1,
                    !.sessionRef = IF @ = None THEN @
                                   ELSE Some(clearElementChatHistory(@[1]))]))

\* The "Replace last assistant reply" checkbox.
ToggleClearPrevious ==
  /\ isMounted
  /\ Commit([Mach EXCEPT !.clearPreviousAssistant = ~@])

\* A window message of type __NABOKOV_TEST_FORCE_DUPLICATE__ arrives.
PostDuplicateConfig(config) ==
  /\ duplicateTestConfig # Some(config)
  /\ Commit([Mach EXCEPT !.duplicateTestConfig = Some(config)])

\* A window message of type __NABOKOV_RESET_TEST_FORCE_DUPLICATE__ arrives.
ResetDuplicateConfig ==
  /\ duplicateTestConfig # None
  /\ Commit([Mach EXCEPT !.duplicateTestConfig = None])

\* persistSessionState(), run by the debounced save or by handleRequestClose:
\* its effect on the session object.
PersistSessionState ==
  /\ isMounted
  /\ Commit([Mach EXCEPT !.sessionRef =
       Some([(IF @ = None THEN createElementChatSession ELSE @[1])
               EXCEPT !.messages = messages, !.array = messagesArray])])

\* The component unmounts (onClose): the cleanup effect.
Unmount ==
  /\ isMounted
  /\ Commit([Mach EXCEPT !.isMounted = FALSE])

\* The dispatch queue, its timers, the history and the lifetime of the window.
Next ==
  \/ \E input \in Inputs : Submit(input, MaxSubmits)
  \/ \E turnId \in DOMAIN sends : AddUser(turnId)
  \/ \E turnId \in DOMAIN sends, chunk \in Chunks : Chunk(turnId, chunk)
  \/ \E turnId \in DOMAIN sends : StreamEnd(turnId)
  \/ \E turnId \in DOMAIN sends : StoreDone(turnId)
  \/ \E turnId \in DOMAIN sends : Fail(turnId)
  \/ \E i \in 1..Len(timers) : TimerFire(i)
  \/ Tick
  \/ WindowElapses
  \/ \E id \in QueueIds(messageQueue) : handleRemoveQueuedMessage(id)
  \/ ClearQueue
  \/ ClearHistory
  \/ ClearHistoryDone
  \/ Unmount

Spec == Init /\ [][Next]_vars

\* What is stored: the turns of an open window, with the "replace last assistant
\* reply" checkbox, the duplicate test hook, saves and history clears.
StoreNext ==
  \/ \E input \in Inputs : Submit(input, MaxSubmits)
  \/ \E turnId \in DOMAIN sends : AddUser(turnId)
  \/ \E turnId \in DOMAIN sends, chunk \in Chunks : Chunk(turnId, chunk)
  \/ \E turnId \in DOMAIN sends : StreamEnd(turnId)
  \/ \E turnId \in DOMAIN sends : StoreDone(turnId)
  \/ \E turnId \in DOMAIN sends : Fail(turnId)
  \/ \E i \in 1..Len(timers) : TimerFire(i)
  \/ Tick
  \/ ClearHistory
  \/ ClearHistoryDone
  \/ ToggleClearPrevious
  \/ \E config \in DuplicateConfigs : PostDuplicateConfig(config)
  \/ ResetDuplicateConfig
  \/ PersistSessionState

StoreSpec == Init /\ [][StoreNext]_vars

\* The dispatch race: one more submission, and a user who only submits and edits
\* the queue.
RaceNext ==
  \/ \E input \in Inputs : Submit(input, MaxRaceSubmits)
  \/ \E turnId \in DOMAIN sends : AddUser(turnId)
  \/ \E turnId \in DOMAIN sends, chunk \in Chunks : Chunk(turnId, chunk)
  \/ \E turnId \in DOMAIN sends : StreamEnd(turnId)
  \/ \E turnId \in DOMAIN sends : StoreDone(turnId)
  \/ \E turnId \in DOMAIN sends : Fail(turnId)
  \/ \E i \in 1..Len(timers) : TimerFire(i)
  \/ Tick
  \/ WindowElapses
  \/ \E id \in QueueIds(messageQueue) : handleRemoveQueuedMessage(id)
  \/ ClearQueue

RaceSpec == Init /\ [][RaceNext]_vars

\* Overlapping requests: one submission more again, and requests that only complete
\* or fail.
OverlapNext ==
  \/ \E input \in Inputs : Submit(input, MaxOverlapSubmits)
  \/ \E turnId \in DOMAIN sends : AddUser(turnId)
  \/ \E turnId \in DOMAIN sends : StreamEnd(turnId)
  \/ \E turnId \in DOMAIN sends : Fail(turnId)
  \/ \E i \in 1..Len(timers) : TimerFire(i)
  \/ Tick

OverlapSpec == Init /\ [][OverlapNext]_vars

\* Fair scheduling: the event loop runs every task that is ready (a resumed call, a
\* timer that is due), time passes, and the backend ends every request, by its end
\* or by a failure.  The user's own steps are under no obligation.
FairNext ==
  \/ \E input \in Inputs : Submit(input, MaxFairSubmits)
  \/ \E turnId \in DOMAIN sends : AddUser(turnId)
  \/ \E turnId \in DOMAIN sends, chunk \in Chunks : Chunk(turnId, chunk)
  \/ \E turnId \in DOMAIN sends : StreamEnd(turnId)
  \/ \E turnId \in DOMAIN sends : StoreDone(turnId)
  \/ \E turnId \in DOMAIN sends : Fail(turnId)
  \/ \E i \in 1..Len(timers) : TimerFire(i)
  \/ Tick
  \/ \E id \in QueueIds(messageQueue) : handleRemoveQueuedMessage(id)
  \/ ClearQueue
  \/ Unmount

FairSpec ==
  /\ Init
  /\ [][FairNext]_vars
  /\ WF_vars(\E turnId \in DOMAIN sends : AddUser(turnId))
  /\ WF_vars(\E turnId \in DOMAIN sends : Fail(turnId) \/ StreamEnd(turnId))
  /\ WF_vars(\E turnId \in DOMAIN sends : StoreDone(turnId))
  /\ WF_vars(\E i \in 1..Len(timers) : TimerFire(i))
  /\ WF_vars(Tick)

\* --------------------------------------------------------- window actions
\* Rnd is rendered without an onDragStart prop (1734-1760): nothing of the
\* component runs when a drag starts, and handleDragStart is never called.
onDragStart(w) == w

\* The user presses the drag handle and starts to move the window.
DragStart ==
  /\ isMounted /\ ~userDragging
  /\ nMutations < MaxMutations
  /\ CommitWin([onDragStart(Win) EXCEPT !.userDragging = TRUE])

\* The user lets go of the window at `data`.
DragStop(data) ==
  /\ isMounted /\ userDragging
  /\ LET measured == /\ anchorElementRef # None
                      /\ anchorRects[anchorElementRef[1]] # None
     IN CommitWin([handleDragStop(Win, data) EXCEPT
                     !.userDragging = FALSE,
                     !.nMutations = @ + 1,
                     !.lastDrop = Some([at |-> data, measured |-> measured])])

\* The user has resized the expanded window.
ResizeStop(size, newPosition, limit) ==
  /\ isMounted /\ ~userDragging
  /\ collapseState = "expanded"
  /\ nMutations < limit
  /\ CommitWin([handleResizeStop(Win, size, newPosition) EXCEPT
                  !.nMutations = @ + 1,
                  !.lastDrop = None,
                  !.lastOp = Some([op |-> "resize", n |-> nMutations + 1,
                                   from |-> collapseState, size |-> windowSize,
                                   was |-> size])])

\* the size the window had when it was last expanded
ExpandedSize ==
  IF collapseState = "expanded" \/ lastOp = None THEN windowSize ELSE lastOp[1].was

\* The rectangle button of the header, which the square does not show.
CollapseToRectangle(limit) ==
  /\ isMounted /\ ~userDragging
  /\ collapseState # "square"
  /\ nMutations < limit
  /\ CommitWin([handleCollapseToRectangle(Win) EXCEPT
                  !.nMutations = @ + 1,
                  !.lastOp = Some([op |-> "rectangle", n |-> nMutations + 1,
                                   from |-> collapseState, size |-> windowSize,
                                   was |-> ExpandedSize])])

\* The square button of the header, which the square does not show.
CollapseToSquare(limit) ==
  /\ isMounted /\ ~userDragging
  /\ collapseState # "square"
  /\ nMutations < limit
  /\ CommitWin([handleCollapseToSquare(Win) EXCEPT
                  !.nMutations = @ + 1,
                  !.lastOp = Some([op |-> "square", n |-> nMutations + 1,
                                   from |-> collapseState, size |-> windowSize,
                                   was |-> ExpandedSize])])

\* The button that the square shows: setCollapseState('expanded').
Expand(limit) ==
  /\ isMounted /\ ~userDragging
  /\ collapseState = "square"
  /\ nMutations < limit
  /\ CommitWin([handleExpand(Win) EXCEPT
                  !.nMutations = @ + 1,
                  !.lastOp = Some([op |-> "expand", n |-> nMutations + 1,
                                   from |-> collapseState, size |-> windowSize,
                                   was |-> ExpandedSize])])

\* The event nabokov:test:set-collapse-state on the window's host element.
TestCollapse(nextState, limit) ==
  /\ isMounted /\ ~userDragging
  /\ nMutations < limit
  /\ CommitWin([handleTestCollapse(Win, nextState) EXCEPT
                  !.nMutations = @ + 1,
                  !.lastOp = Some([op |-> "set", n |-> nMutations + 1, to |-> nextState,
                                   from |-> collapseState, size |-> windowSize,
                                   was |-> ExpandedSize])])

\* The header of the queue panel, shown in the expanded window while something is
\* queued or the queue is being processed: setQueueExpanded(prev => !prev).
ToggleQueuePanel ==
  /\ isMounted /\ ~userDragging
  /\ collapseState = "expanded"
  /\ messageQueue # <<>> \/ isProcessingQueueRef
  /\ nMutations < MaxMutations
  /\ CommitWin([Win EXCEPT !.queueExpanded = ~@, !.nMutations = @ + 1])

\* The "Replace last assistant reply" checkbox, in the whole component.
ToggleReplaceLast ==
  /\ isMounted /\ ~userDragging
  /\ collapseState = "expanded"
  /\ nMutations < MaxMutations
  /\ CommitWin([Win EXCEPT !.clearPreviousAssistant = ~@, !.nMutations = @ + 1])

\* A repositioning tick: the animation frame after a scroll, a resize or a change
\* of the page, or the test event.
AnchorTick ==
  /\ isMounted
  /\ CommitWin(ensureAnchorPosition(Win))

\* The page changes under the window: anchors come and go, the page scrolls.
PageChanges(present, scroll) ==
  /\ anchorRects # PageRects(present, scroll)
  /\ CommitWin([Win EXCEPT !.anchorRects = PageRects(present, scroll),
                           !.lastDrop = None])

\* The user clicks the chip of the anchor `key` in the expanded window; the run
\* makes at most `limit` changes to the window.
SelectAnchor(key, limit) ==
  /\ isMounted /\ ~userDragging
  /\ collapseState = "expanded"
  /\ nMutations < limit
  /\ CommitWin([handleAnchorChipClick(Win, key) EXCEPT
                  !.nMutations = @ + 1,
                  !.lastDrop = None,
                  !.lastOp = Some([op |-> "select", key |-> key, n |-> nMutations + 1,
                                         inPage |-> anchorRects[key] # None,
                                         cached |-> anchorOffsetsRef[key],
                                         offset |-> anchorOffset])])

\* The timer of saveSession fires.
SaveTimerFires ==
  /\ saveTimeoutRef = Some(0)
  /\ Len(saving) < MaxSaving
  /\ CommitWin(SaveTimeout(Win))

\* saveElementChat returns to the persistSessionState that the timer started.
SaveDone ==
  /\ saving # <<>>
  /\ Head(saving).via = "timer"
  /\ CommitWin([Win EXCEPT !.storage = Some(Head(saving).session),
                           !.saving = Tail(@)])

\* The close button or the Escape key.
RequestClose ==
  /\ isMounted /\ ~closing /\ ~userDragging
  /\ Len(saving) < MaxSaving
  /\ CommitWin(handleRequestClose(Win))

\* saveElementChat returns to the persistSessionState of handleRequestClose, which
\* goes on to onClose(): the component is unmounted.
CloseDone ==
  /\ saving # <<>>
  /\ Head(saving).via = "close"
  /\ CommitWin(Cleanup([Win EXCEPT !.storage = Some(Head(saving).session),
                                   !.saving = Tail(@),
                                   !.closing = FALSE]))

\* d ticks pass for the save timer too
ElapseWin(w, d) ==
  [Elapse(w, d) EXCEPT
     !.saveTimeoutRef = IF @ = None THEN @ ELSE Some(Max(@[1] - d, 0)),
     !.sinceMutation = Min(@ + d, SaveDelay)]

\* d ticks pass while a timer is counting down.
TimePasses(d) ==
  /\ (saveTimeoutRef # None /\ saveTimeoutRef[1] > 0)
     \/ \E i \in 1..Len(timers) : timers[i] > 0
  /\ CommitWin(ElapseWin(Win, d))

\* the chat's actions in the whole component
SubmitW(input, limit) ==
  /\ isMounted /\ ~userDragging
  /\ nSubmitted < limit
  /\ CommitWin(handleSendMessage(Win, input.text, input.images))

AddUserW(turnId) ==
  /\ turnId \in DOMAIN sends
  /\ sends[turnId].pc = "start"
  /\ LET newMessages == dedupeMessagesById(Append(messages, UserEntry(turnId, sends[turnId])))
     IN CommitWin([SetAllMessages(Win, newMessages, NewArray(turnId)) EXCEPT
                     !.isStreaming = TRUE,
                     !.streamingDeltas = <<>>,
                     !.sends[turnId].newMessages = newMessages,
                     !.sends[turnId].pc = "streaming"])

\* where the user can drop the window, and what the window can be resized to
DragTargets == {Pt(9, 7)}
Sizes == {[width |-> 300, height |-> 200]}

\* what the user sends in the window's specification
PersistInputs == {[text |-> <<c>>, images |-> <<>>] : c \in {"a", "b"}}

\* The window, its debounced persistence and its closing, while the first turn of
\* the conversation is being answered and a second message waits in the queue.
PersistNext ==
  \/ \E input \in PersistInputs : SubmitW(input, MaxPersistSubmits)
  \/ \E turnId \in DOMAIN sends : AddUserW(turnId)
  \/ ToggleQueuePanel
  \/ DragStart
  \/ \E data \in DragTargets : DragStop(data)
  \/ \E size \in Sizes : ResizeStop(size, position, MaxMutations)
  \/ CollapseToRectangle(MaxMutations)
  \/ ToggleReplaceLast
  \/ SaveTimerFires
  \/ SaveDone
  \/ RequestClose
  \/ CloseDone
  \/ \E d \in {2, SaveDelay} : TimePasses(d)

PersistSpec == Init /\ [][PersistNext]_vars

\* where the user can drop the window in the anchoring specification
AnchorDrops == {Pt(9, 7), Pt(3, 2)}

\* The window and its anchors: the page changes, the ticks follow it, the user
\* drags the window. Nothing is sent, so nothing is persisted.
AnchorNext ==
  \/ DragStart
  \/ \E data \in AnchorDrops : DragStop(data)
  \/ AnchorTick
  \/ \E present \in Presents, scroll \in Scrolls : PageChanges(present, scroll)

AnchorSpec == Init /\ [][AnchorNext]_vars

\* how far the page can be scrolled while the user selects anchors or resizes
SelectScrolls == {Pt(0, 0), Pt(0, 4)}

\* The window and its anchors while the user drags the window and resizes it by
\* its left edge.
RecacheNext ==
  \/ DragStart
  \/ \E data \in DragTargets : DragStop(data)
  \/ \E size \in Sizes : ResizeStop(size, Pt(position.x - 2, position.y), MaxMutations)
  \/ AnchorTick
  \/ \E present \in Presents, scroll \in SelectScrolls : PageChanges(present, scroll)

RecacheSpec == Init /\ [][RecacheNext]_vars

\* what the window can be resized to before and between its collapses, in pixels
CollapseSizes == {[width |-> 300, height |-> 200], [width |-> 500, height |-> 300]}

\* The window while the user resizes it by its bottom right corner and collapses and
\* expands it with the header's buttons, the square's button and the test event.
CollapseNext ==
  \/ \E size \in CollapseSizes : ResizeStop(size, position, MaxCollapseOps)
  \/ CollapseToRectangle(MaxCollapseOps)
  \/ CollapseToSquare(MaxCollapseOps)
  \/ Expand(MaxCollapseOps)
  \/ \E nextState \in CollapseStates : TestCollapse(nextState, MaxCollapseOps)

CollapseSpec == Init /\ [][CollapseNext]_vars

\* ------------------------------------------------- resolution on its own
\* resolveElementForDescriptor applied to a descriptor and a page of up to
\* MaxElements elements in document order. An element is named by its place in the
\* page; rectangles are in pixels.

\* an element of the page: its id and class ("" for none), its data-nabokov-chat-id
\* attribute ("" for none) and the top left corner of its bounding rectangle
PageElements ==
  [id : {"", "i"}, cls : {"", "c"}, chatId : {"", "k"},
   rect : {Pt(0, 0), Pt(4, 0), Pt(0, 5)}]

Pages == UNION {[1..n -> PageElements] : n \in 0..MaxElements}

\* a descriptor: "[" is a selector that the page rejects, and xpath is the place that
\* the structural path leads to (0 when it leads nowhere)
Descriptors ==
  [id : {"", "i"}, cssSelector : {"", "#i", ".c", "["}, chatId : {"k"},
   boundingRect : {Pt(0, 0), Pt(0, 5)}, xpath : 0..MaxElements]

\* the first of some places of the page, in document order
FirstOf(places) ==
  IF places = {} THEN None
  ELSE Some(CHOOSE i \in places : \A j \in places : i <= j)

\* document.getElementById
getElementById(page, id) == FirstOf({i \in DOMAIN page : page[i].id = id})

\* whether the page accepts the selector, and the elements it selects
ValidSelector(selector) == selector # "["

querySelectorAll(page, selector) ==
  {i \in DOMAIN page :
     \/ selector = "#i" /\ page[i].id = "i"
     \/ selector = ".c" /\ page[i].cls = "c"}

\* document.querySelector; it throws on a selector that the page rejects, which
\* the caller catches
querySelector(page, selector) ==
  IF ValidSelector(selector) THEN FirstOf(querySelectorAll(page, selector)) ELSE None

\* the structural lookup of the element identification service: the element at the
\* place that the descriptor's path leads to
findElementByDescriptor(page, descriptor) ==
  IF descriptor.xpath \in DOMAIN page THEN Some(descriptor.xpath) ELSE None

\* the proximity test on a candidate's rectangle
CloseTo(rect, targetRect) ==
  Abs(rect.y - targetRect.y) < ProximityPx /\ Abs(rect.x - targetRect.x) < ProximityPx

\* a resolution that asks the selector before the id
selectorFirst(page, descriptor) ==
  LET bySelector == IF descriptor.cssSelector # ""
                    THEN querySelector(page, descriptor.cssSelector) ELSE None
      byId == IF descriptor.id # "" THEN getElementById(page, descriptor.id) ELSE None
  IN IF bySelector # None THEN bySelector
     ELSE IF byId # None THEN byId
     ELSE findElementByDescriptor(page, descriptor)

resolveElementForDescriptor(page, descriptor) ==
  LET byId == IF descriptor.id # "" THEN getElementById(page, descriptor.id) ELSE None
      bySelector == IF descriptor.cssSelector # ""
                    THEN querySelector(page, descriptor.cssSelector) ELSE None
      chatMatches == {i \in DOMAIN page : page[i].chatId = descriptor.chatId}
      close == {i \in chatMatches : CloseTo(page[i].rect, descriptor.boundingRect)}
  IN IF byId # None THEN byId
     ELSE IF bySelector # None THEN bySelector
     ELSE IF chatMatches # {}
       THEN IF Cardinality(chatMatches) > 1 /\ close # {}
            THEN FirstOf(close)
            ELSE FirstOf(chatMatches)
     ELSE findElementByDescriptor(page, descriptor)

ResolveInit ==
  /\ ChatInit
  /\ ServiceInit
  /\ WinInit
  /\ callArgs \in {Some([page |-> page, descriptor |-> descriptor]) :
                     page \in Pages, descriptor \in Descriptors}
  /\ callResult = None

Resolve ==
  /\ callArgs # None
  /\ callResult = None
  /\ callResult' = Some(resolveElementForDescriptor(callArgs[1].page,
                                                    callArgs[1].descriptor))
  /\ UNCHANGED <<callArgs, chatVars, winVars, serviceVars>>

ResolveSpec == ResolveInit /\ [][Resolve]_vars

\* ------------------------------------------------------- descriptor keys
\* the longest descriptor list of the key specification
MaxKeyDescriptors == 2

\* the descriptors of a session as far as their key reads them; "" is an absent
\* field, and the rectangle is in whole pixels, which Math.round leaves as they are
KeyDescriptors ==
  [chatId : {"k", "m"}, id : {"", "i"}, cssSelector : {"", ".c"}, xpath : {"", "/p"},
   boundingRect : {Pt(0, 0), Pt(0, 5)}]

\* buildDescriptorKey: the parts that join('|') puts together
buildDescriptorKey(descriptor, index) ==
  IF descriptor.id # "" THEN <<descriptor.chatId, "id", descriptor.id>>
  ELSE IF descriptor.cssSelector # ""
    THEN <<descriptor.chatId, "css", descriptor.cssSelector>>
  ELSE IF descriptor.xpath # "" THEN <<descriptor.chatId, "xpath", descriptor.xpath>>
  ELSE <<descriptor.chatId, "rect", descriptor.boundingRect, "idx", index>>

\* descriptorEntries: the key of every descriptor of the list, the index counted
\* from 0
descriptorEntries(list) ==
  [i \in 1..Len(list) |-> buildDescriptorKey(list[i], i - 1)]

KeyInit ==
  /\ ChatInit
  /\ ServiceInit
  /\ WinInit
  /\ callArgs \in {Some([list |-> list]) :
                     list \in UNION {[1..n -> KeyDescriptors] : n \in 1..MaxKeyDescriptors}}
  /\ callResult = None

\* the component computes the keys of its descriptor list
BuildKeys ==
  /\ callArgs # None
  /\ callResult = None
  /\ callResult' = Some(descriptorEntries(callArgs[1].list))
  /\ UNCHANGED <<callArgs, chatVars, winVars, serviceVars>>

KeySpec == KeyInit /\ [][BuildKeys]_vars

\* ------------------------------------------------- the indicator service
\* The module of the element chat indicators: one badge in the page for every entry
\* of its map. A descriptor is its logical identifier (descriptor.chatId) and a
\* revision that stands for its other fields; identifiers hold no "::".

\* the service's state as one record, so that its functions are functions on it
Svc ==
  [indicators |-> indicators, badges |-> badges, hiddenChats |-> hiddenChats,
   rafHandle |-> rafHandle, initialized |-> initialized, nextBadge |-> nextBadge,
   refreshRequests |-> refreshRequests]

\* a map or a page without all but the keys `kept`
Restrict(f, kept) == IF kept = {} THEN <<>> ELSE [k \in kept |-> f[k]]

getDescriptorKey(chatId, descriptor) == <<chatId, descriptor.chatId>>

\* requestAnimationFrame unless rafHandle holds a request
scheduleRefresh(R) ==
  IF R.rafHandle THEN R
  ELSE [R EXCEPT !.rafHandle = TRUE, !.refreshRequests = @ + 1]

ensureInitialized(R) == [R EXCEPT !.initialized = TRUE]

\* the body of the descriptors' loop with a badge made for every descriptor
upsertDuplicating(R, chatId, descriptor) ==
  LET key == getDescriptorKey(chatId, descriptor)
      entry == [key |-> key, chatId |-> chatId, descriptor |-> descriptor,
                badge |-> R.nextBadge, element |-> None]
  IN [R EXCEPT !.indicators = (key :> entry) @@ @,
               !.badges = @ @@ (R.nextBadge :> "none"),
               !.nextBadge = @ + 1]

\* the body of the descriptors' loop in sync and upsert: the entry of the key is
\* made, with a badge that createBadge appends to the page undisplayed, or its
\* descriptor is replaced
upsertEntry(R, chatId, descriptor) ==
  LET key == getDescriptorKey(chatId, descriptor)
      entry == [key |-> key, chatId |-> chatId, descriptor |-> descriptor,
                badge |-> R.nextBadge, element |-> None]
  IN IF key \in DOMAIN R.indicators
     THEN [R EXCEPT !.indicators[key].descriptor = descriptor]
     ELSE [R EXCEPT !.indicators = @ @@ (key :> entry),
                    !.badges = @ @@ (R.nextBadge :> "none"),
                    !.nextBadge = @ + 1]

RECURSIVE upsertEach(_, _, _)
upsertEach(R, chatId, descriptors) ==
  IF descriptors = <<>> THEN R
  ELSE upsertEach(upsertEntry(R, chatId, Head(descriptors)), chatId, Tail(descriptors))

\* a removal that leaves the entry's badge in the page
removeLeavingBadge(R, key) ==
  IF key \notin DOMAIN R.indicators THEN R
  ELSE [R EXCEPT !.indicators = Restrict(@, DOMAIN @ \ {key}),
                 !.hiddenChats = @ \ {R.indicators[key].chatId}]

removeIndicatorByKey(R, key) ==
  IF key \notin DOMAIN R.indicators THEN R
  ELSE [R EXCEPT !.indicators = Restrict(@, DOMAIN @ \ {key}),
                 !.badges = Restrict(@, DOMAIN @ \ {R.indicators[key].badge}),
                 !.hiddenChats = @ \ {R.indicators[key].chatId}]

RECURSIVE removeEach(_, _)
removeEach(R, keys) ==
  IF keys = {} THEN R
  ELSE LET key == CHOOSE k \in keys : TRUE
       IN removeEach(removeIndicatorByKey(R, key), keys \ {key})

\* the descriptors of a session: elementDescriptors, or else the primary one
descriptorsOf(session) ==
  IF session.elementDescriptors # <<>> THEN session.elementDescriptors
  ELSE session.elementDescriptor

keysOf(session) ==
  {getDescriptorKey(session.elementId, descriptorsOf(session)[i]) :
     i \in DOMAIN descriptorsOf(session)}

RECURSIVE upsertSessions(_, _)
upsertSessions(R, sessions) ==
  IF sessions = <<>> THEN R
  ELSE upsertSessions(upsertEach(R, Head(sessions).elementId,
                                 descriptorsOf(Head(sessions))),
                      Tail(sessions))

syncIndicatorsForSessions(R, sessions) ==
  LET activeKeys == UNION {keysOf(sessions[i]) : i \in DOMAIN sessions}
      upserted == upsertSessions(ensureInitialized(R), sessions)
  IN scheduleRefresh(removeEach(upserted, DOMAIN upserted.indicators \ activeKeys))

upsertIndicatorsForSession(R, session) ==
  LET seenKeys == keysOf(session)
      upserted == upsertEach(ensureInitialized(R), session.elementId,
                             descriptorsOf(session))
      stale == {k \in DOMAIN upserted.indicators :
                  upserted.indicators[k].chatId = session.elementId
                  /\ k \notin seenKeys}
  IN scheduleRefresh(removeEach(upserted, stale))

removeIndicatorsForChat(R, chatId) ==
  LET cleared == removeEach(R, {k \in DOMAIN R.indicators :
                                  R.indicators[k].chatId = chatId})
  IN [cleared EXCEPT !.hiddenChats = @ \ {chatId}]

\* the badges of the entries of a chat
BadgesOf(R, chatId) ==
  {R.indicators[k].badge : k \in {j \in DOMAIN R.indicators :
                                     R.indicators[j].chatId = chatId}}

hideIndicatorsForChat(R, chatId) ==
  scheduleRefresh(
    [R EXCEPT !.hiddenChats = @ \cup {chatId},
              !.badges = [b \in DOMAIN @ |->
                            IF b \in BadgesOf(R, chatId) THEN "none" ELSE @[b]]])

showIndicatorsForChat(R, chatId) ==
  scheduleRefresh([R EXCEPT !.hiddenChats = @ \ {chatId}])

\* the lookup of the element identification service: the described element, if the
\* page has it
findElementInPage(dom, descriptor) ==
  IF dom[descriptor.chatId] = "absent" THEN None ELSE Some(descriptor.chatId)

\* positionBadge: the element that the entry holds afterwards
elementAfter(R, dom, entry) ==
  IF entry.chatId \in R.hiddenChats THEN entry.element
  ELSE IF entry.element = None \/ dom[entry.element[1]] = "absent"
       THEN findElementInPage(dom, entry.descriptor)
       ELSE entry.element

\* a positionBadge that displays the badge of an element without size
displayZeroSized(R, dom, entry) ==
  IF entry.chatId \in R.hiddenChats THEN "none"
  ELSE IF elementAfter(R, dom, entry) = None THEN "none"
  ELSE "block"

\* positionBadge: the display that the entry's badge has afterwards
displayAfter(R, dom, entry) ==
  IF entry.chatId \in R.hiddenChats THEN "none"
  ELSE IF elementAfter(R, dom, entry) = None THEN "none"
  ELSE IF dom[elementAfter(R, dom, entry)[1]] = "zero" THEN "none"
  ELSE "block"

\* the entry that holds a badge
OwnerOf(R, badge) == CHOOSE k \in DOMAIN R.indicators : R.indicators[k].badge = badge

refreshIndicators(R, dom) ==
  [R EXCEPT !.indicators = [k \in DOMAIN @ |->
                              [@[k] EXCEPT !.element = elementAfter(R, dom, R.indicators[k])]],
            !.badges = [b \in DOMAIN @ |->
                          IF \E k \in DOMAIN R.indicators : R.indicators[k].badge = b
                          THEN displayAfter(R, dom, R.indicators[OwnerOf(R, b)])
                          ELSE @[b]]]

\* the next state of the service is R
AssignService(R) ==
  /\ indicators' = R.indicators
  /\ badges' = R.badges
  /\ hiddenChats' = R.hiddenChats
  /\ rafHandle' = R.rafHandle
  /\ initialized' = R.initialized
  /\ nextBadge' = R.nextBadge
  /\ refreshRequests' = R.refreshRequests

\* a call of the service: the history records it, and whether it repeats the call
\* before it
Called(op, arg) ==
  /\ nIndicatorOps' = nIndicatorOps + 1
  /\ lastIndicatorOp' = Some([op |-> op, arg |-> arg, n |-> nIndicatorOps + 1,
                              again |-> /\ lastIndicatorOp # None
                                        /\ lastIndicatorOp[1].op = op
                                        /\ lastIndicatorOp[1].arg = arg])

\* the pairs that a session registers
PairsOf(session) == keysOf(session)

\* the descriptors and the sessions that the service is called with
IndicatorDescriptors == [chatId : DescriptorIds, rev : 1..2]

SessionInputs ==
  {[elementId |-> c, elementDescriptor |-> <<list[1]>>, elementDescriptors |-> list] :
     c \in ChatIds,
     list \in {<<[chatId |-> "d1", rev |-> 1]>>,
               <<[chatId |-> "d1", rev |-> 2]>>,
               <<[chatId |-> "d1", rev |-> 1], [chatId |-> "d2", rev |-> 1]>>}}

SessionLists ==
  {<<>>} \cup {<<session>> : session \in SessionInputs}
         \cup {<<a, b>> : a \in {x \in SessionInputs : x.elementId = "s1"},
                          b \in {x \in SessionInputs : x.elementId = "s2"}}

\* the states of the page's elements
DomStates ==
  {[d \in DescriptorIds |-> "present"],
   [d \in DescriptorIds |-> IF d = "d1" THEN "absent" ELSE "present"],
   [d \in DescriptorIds |-> IF d = "d1" THEN "zero" ELSE "present"]}

SyncIndicators(sessions) ==
  /\ nIndicatorOps < MaxIndicatorOps
  /\ AssignService(syncIndicatorsForSessions(Svc, sessions))
  /\ registered' = UNION {PairsOf(sessions[i]) : i \in DOMAIN sessions}
  /\ Called("sync", sessions)
  /\ UNCHANGED <<domElements, openChats, callVars, chatVars, winVars, frameVars>>

UpsertIndicators(session) ==
  /\ nIndicatorOps < MaxIndicatorOps
  /\ AssignService(upsertIndicatorsForSession(Svc, session))
  /\ registered' = {pair \in registered : pair[1] # session.elementId}
                      \cup PairsOf(session)
  /\ Called("upsert", session)
  /\ UNCHANGED <<domElements, openChats, callVars, chatVars, winVars, frameVars>>

RemoveIndicators(chatId) ==
  /\ nIndicatorOps < MaxIndicatorOps
  /\ AssignService(removeIndicatorsForChat(Svc, chatId))
  /\ registered' = {pair \in registered : pair[1] # chatId}
  /\ Called("remove", chatId)
  /\ UNCHANGED <<domElements, openChats, callVars, chatVars, winVars, frameVars>>

\* The chat window of the chat mounts: hideIndicatorsForChat.
HideIndicators(chatId) ==
  /\ nIndicatorOps < MaxIndicatorOps
  /\ chatId \notin openChats
  /\ AssignService(hideIndicatorsForChat(Svc, chatId))
  /\ openChats' = openChats \cup {chatId}
  /\ Called("hide", chatId)
  /\ UNCHANGED <<domElements, registered, callVars, chatVars, winVars, frameVars>>

\* The chat window of the chat closes or unmounts: showIndicatorsForChat.
ShowIndicators(chatId) ==
  /\ nIndicatorOps < MaxIndicatorOps
  /\ chatId \in openChats
  /\ AssignService(showIndicatorsForChat(Svc, chatId))
  /\ openChats' = openChats \ {chatId}
  /\ Called("show", chatId)
  /\ UNCHANGED <<domElements, registered, callVars, chatVars, winVars, frameVars>>

\* The animation frame that scheduleRefresh requested.
RefreshFrame ==
  /\ refreshRequests > 0
  /\ AssignService(refreshIndicators([Svc EXCEPT !.rafHandle = FALSE,
                                                 !.refreshRequests = 0],
                                     domElements))
  /\ lastFrame' = Some([ran |-> "refresh", passes |-> refreshRequests,
                        events |-> eventsSinceFrame.refresh, before |-> badges,
                        again |-> lastFrame # None /\ lastFrame[1].ran = "refresh"])
  /\ eventsSinceFrame' = [eventsSinceFrame EXCEPT !.refresh = 0]
  /\ UNCHANGED <<domElements, openChats, registered, lastIndicatorOp, nIndicatorOps,
                 callVars, chatVars, winVars, animationFrameRef, anchorRequests>>

\* The page scrolls, is resized or changes: the listeners that ensureInitialized
\* installed request a refresh. The history counts the event if `counted`.
PageEvent(dom, counted) ==
  /\ refreshRequests < MaxRequests
  /\ domElements' = dom
  /\ AssignService(IF initialized THEN scheduleRefresh(Svc) ELSE Svc)
  /\ eventsSinceFrame' = [eventsSinceFrame EXCEPT
                            !.refresh = IF initialized /\ counted
                                        THEN Min(@ + 1, 2) ELSE @]
  /\ UNCHANGED <<openChats, registered, lastIndicatorOp, nIndicatorOps,
                 callVars, chatVars, winVars, animationFrameRef, anchorRequests,
                 lastFrame>>

\* the window's frame callback as the browser holds it
Frames == [animationFrameRef |-> animationFrameRef, anchorRequests |-> anchorRequests]

\* a handleUpdate that requests a frame without cancelling the one it requested before
requestWithoutCancel(F) ==
  [F EXCEPT !.animationFrameRef = "pending", !.anchorRequests = @ + 1]

\* handleUpdate: the callback that animationFrameRef names is cancelled, which takes
\* it from the browser if it has not run yet, and a new one is requested
handleUpdate(F) ==
  [F EXCEPT !.animationFrameRef = "pending",
            !.anchorRequests = (IF F.animationFrameRef = "pending" THEN @ - 1 ELSE @) + 1]

\* ensureAnchorPosition run by each of n callbacks
RECURSIVE ensureTimes(_, _)
ensureTimes(w, n) == IF n = 0 THEN w ELSE ensureTimes(ensureAnchorPosition(w), n - 1)

\* A scroll, a resize or a mutation of the page reaches the window's listeners.
WindowEvent ==
  /\ isMounted
  /\ anchorRequests < MaxRequests
  /\ \E F \in {handleUpdate(Frames)} :
       /\ animationFrameRef' = F.animationFrameRef
       /\ anchorRequests' = F.anchorRequests
  /\ eventsSinceFrame' = [eventsSinceFrame EXCEPT !.anchor = Min(@ + 1, 2)]
  /\ UNCHANGED <<indicators, badges, hiddenChats, rafHandle, initialized, nextBadge,
                 domElements, openChats, registered, lastIndicatorOp, nIndicatorOps,
                 refreshRequests, lastFrame, callVars, chatVars, winVars>>

\* The animation frame runs the callbacks that the window requested.
AnchorFrame ==
  /\ anchorRequests > 0
  /\ \E m \in {AfterRender(Win, ensureTimes(Win, anchorRequests))} :
       AssignChat(m) /\ AssignWin(m)
  /\ animationFrameRef' = "ran"
  /\ anchorRequests' = 0
  /\ lastFrame' = Some([ran |-> "anchor", passes |-> anchorRequests,
                        events |-> eventsSinceFrame.anchor, before |-> <<>>,
                        again |-> lastFrame # None /\ lastFrame[1].ran = "anchor"])
  /\ eventsSinceFrame' = [eventsSinceFrame EXCEPT !.anchor = 0]
  /\ UNCHANGED <<indicators, badges, hiddenChats, rafHandle, initialized, nextBadge,
                 domElements, openChats, registered, lastIndicatorOp, nIndicatorOps,
                 refreshRequests, callVars>>

IndicatorNext ==
  \/ \E sessions \in SessionLists : SyncIndicators(sessions)
  \/ \E session \in SessionInputs : UpsertIndicators(session)
  \/ \E chatId \in ChatIds : RemoveIndicators(chatId)
  \/ \E chatId \in ChatIds : HideIndicators(chatId)
  \/ \E chatId \in ChatIds : ShowIndicators(chatId)
  \/ RefreshFrame
  \/ \E dom \in DomStates : PageEvent(dom, FALSE)

IndicatorSpec == Init /\ [][IndicatorNext]_vars

\* the sessions that the page's indicators are synced with while it scrolls
CoalesceSessions ==
  {<<[elementId |-> "s1", elementDescriptor |-> <<[chatId |-> "d1", rev |-> 1]>>,
      elementDescriptors |-> <<[chatId |-> "d1", rev |-> 1],
                               [chatId |-> "d2", rev |-> 1]>>]>>}

\* The page scrolls and changes under an open window and the indicators of another
\* chat: both hear the events and reposition in the animation frames.
CoalesceNext ==
  \/ \E sessions \in CoalesceSessions : SyncIndicators(sessions)
  \/ \E dom \in DomStates : PageEvent(dom, TRUE)
  \/ RefreshFrame
  \/ \E scroll \in SelectScrolls : PageChanges(AnchorKeys, scroll)
  \/ WindowEvent
  \/ AnchorFrame

CoalesceSpec == Init /\ [][CoalesceNext]_vars

\* the window opens on a page that holds all of the anchors, some or none of them
SelectInit ==
  /\ ChatInit
  /\ ServiceInit
  /\ \E present \in Presents : WinIs(Mounted(PageRects(present, Pt(0, 0))))
  /\ callArgs = None
  /\ callResult = None

\* The window and its anchors: the page changes, the ticks follow it, the user
\* selects anchors by their chips.
SelectNext ==
  \/ \E key \in AnchorKeys : SelectAnchor(key, MaxAnchorOps)
  \/ AnchorTick
  \/ \E present \in Presents, scroll \in SelectScrolls : PageChanges(present, scroll)

SelectSpec == SelectInit /\ [][SelectNext]_vars

\* ------------------------------------------------ turn correlation on its own
\* The turn correlation of sendMessageToAPI applied to message lists of up to
\* MaxListLen messages with distinct ids (every list the component holds has passed
\* dedupeMessagesById), for an answer to one of the turns.
CorrelationTurns == {1, 2}

CorrelationEntries ==
  {[id |-> t, role |-> "user", content |-> <<"a">>, turnId |-> t,
    thinking |-> <<>>, images |-> <<>>] : t \in CorrelationTurns}
  \cup {AssistantEntry(AssistantId(t), t, c, <<>>) :
          t \in CorrelationTurns, c \in {<<"a">>, <<"b">>}}
  \cup {AssistantEntry(ForcedId(1), 1, <<"b">>, <<"t">>), ErrorEntry(1)}

MessageLists ==
  {list \in UNION {[1..n -> CorrelationEntries] : n \in 0..MaxListLen} :
     \A i, j \in DOMAIN list : i < j => list[i].id # list[j].id}

CorrelationInit ==
  /\ ChatInit
  /\ ServiceInit
  /\ WinInit
  /\ callArgs \in {Some([baseMessages |-> list, turnId |-> t, content |-> c,
                         thinking |-> th]) :
                     list \in MessageLists, t \in CorrelationTurns,
                     c \in {<<"a">>, <<"b", " ">>}, th \in {<<>>, <<"t">>}}
  /\ callResult = None

\* lines 1141-1224 for the list baseMessages: existingAssistantId is what
\* assistantTurnMapRef holds for the turn
Correlate ==
  /\ callArgs # None
  /\ callResult = None
  /\ LET a == callArgs[1]
     IN callResult' = Some(StoreAnswer(a.baseMessages,
                                       TurnMapGet(a.baseMessages, a.turnId),
                                       a.turnId, a.content, a.thinking,
                                       Trim(a.content)).finalMessages)
  /\ UNCHANGED <<callArgs, chatVars, winVars, serviceVars>>

CorrelationSpec == CorrelationInit /\ [][Correlate]_vars

\* ----------------------------------------------------- partition on its own
\* separateAssistantResponse applied to an accumulated text of up to MaxTextLen
\* characters and a delta history of up to MaxFragments fragments.
TextsUpTo(alphabet, n) == UNION {[1..k -> alphabet] : k \in 0..n}

PartitionTexts == TextsUpTo({"a", " ", "\n", "\r"}, MaxTextLen)

PartitionFragments == {<<>>, <<" ">>, <<"a">>, <<"\n", "b">>}

DeltaHistories == UNION {[1..k -> PartitionFragments] : k \in 0..MaxFragments}

PartitionInit ==
  /\ ChatInit
  /\ ServiceInit
  /\ WinInit
  /\ callArgs \in {Some([fullContent |-> text, deltaHistory |-> history]) :
                     text \in PartitionTexts, history \in DeltaHistories}
  /\ callResult = None

\* line 1097: separateAssistantResponse(assistantContent, deltaHistorySnapshot)
Partition ==
  /\ callArgs # None
  /\ callResult = None
  /\ callResult' = Some(separateAssistantResponse(callArgs[1].fullContent,
                                                  callArgs[1].deltaHistory))
  /\ UNCHANGED <<callArgs, chatVars, winVars, serviceVars>>

PartitionSpec == PartitionInit /\ [][Partition]_vars


\* ================================================================ claims
Range(seq) == {seq[i] : i \in 1..Len(seq)}

\* the assistant messages of `msgs` that carry `turnId`
AssistantsOf(msgs, turnId) ==
  {i \in 1..Len(msgs) : msgs[i].role = "assistant" /\ msgs[i].turnId = turnId}

\* C1: at every moment at most one backend chat request is in flight (a call of
\* sendMessageToAPI that has called the backend and whose stream has not ended).
C1_AtMostOneInFlight ==
  Cardinality({t \in DOMAIN sends : sends[t].pc = "streaming"}) <= 1

\* C2: requests are dispatched in submission order: a turn submitted earlier is
\* never dispatched after a turn submitted later.
C2_DispatchInSubmissionOrder ==
  \A i, j \in 1..Len(dispatched) : i < j => dispatched[i] < dispatched[j]

\* C3: while the window stays open, every queued entry that is not removed is
\* eventually dispatched, with no further step of the user: the scheduled steps
\* of FairSpec alone drain the queue after the request in flight ends or fails.
C3_QueueDrains ==
  \A id \in 1..MaxFairSubmits :
    (id \in QueueIds(messageQueue))
      ~> (id \in Range(dispatched) \/ id \in removed \/ ~isMounted)

\* a queued entry was dispatched from the queue after an earlier turn had failed
C3_DrainedAfterFailure ==
  /\ isMounted
  /\ \E t \in DOMAIN outcome, u \in DOMAIN sends :
       outcome[t] = "error" /\ t < u /\ sends[u].via = "queue"

\* C4: an accepted submission is sent at once, and not queued, if no call of
\* sendMessageToAPI is running, and is appended to the tail of the queue, and not
\* sent, if one is.
C4_SendOrQueue ==
  [][nSubmitted' = nSubmitted + 1 =>
       LET id == nSubmitted'
       IN IF DOMAIN sends = {}
          THEN id \in DOMAIN sends' /\ messageQueue' = messageQueue
          ELSE /\ id \notin DOMAIN sends'
               /\ Len(messageQueue') = Len(messageQueue) + 1
               /\ SubSeq(messageQueue', 1, Len(messageQueue)) = messageQueue
               /\ messageQueue'[Len(messageQueue')].messageId = id]_vars

UniqueMessages(msgs) ==
  /\ \A i, j \in 1..Len(msgs) : i < j => msgs[i].id # msgs[j].id
  /\ \A i, j \in 1..Len(msgs) :
       (i < j /\ msgs[i].role = "assistant" /\ msgs[j].role = "assistant"
          /\ msgs[i].turnId # 0)
         => msgs[i].turnId # msgs[j].turnId

\* C6: at every moment the message list, the component's and the session's, holds
\* no two entries with the same id and at most one assistant message per turnId.
C6_UniqueMessages ==
  /\ UniqueMessages(messages)
  /\ sessionRef # None => UniqueMessages(sessionRef[1].messages)

\* the conversation holds the answers of two turns, one of them stored through the
\* forced-duplicate entry of the test hook
C6_TwoAnswersStored ==
  /\ \E i, j \in 1..Len(messages) :
       /\ i < j
       /\ messages[i].role = "assistant" /\ messages[j].role = "assistant"
       /\ messages[i].turnId # 0 /\ messages[j].turnId # 0
  /\ \E i \in 1..Len(messages) : messages[i].id = ForcedId(messages[i].turnId)

\* C7: no dispatched turn is abandoned: none ends without an answer stored, an
\* empty answer discarded or a failure handled.
C7_NoTurnAbandoned ==
  \A t \in DOMAIN outcome : outcome[t] # "abandoned"

\* C8: an entry the user removed from the queue, alone or by clearing the queue, is
\* never dispatched; a removal takes exactly the removed entries out of the queue;
\* and the entries that stay in the queue keep their relative order.
C8_RemovedNeverDispatched ==
  [][/\ removed' \cap Range(dispatched') = {}
     /\ removed' # removed =>
          messageQueue' = SelectSeq(messageQueue, LAMBDA e : e.id \notin removed')
     /\ LET before == QueueIds(messageQueue)
            after == QueueIds(messageQueue')
        IN SelectSeq(messageQueue, LAMBDA e : e.id \in after)
             = SelectSeq(messageQueue', LAMBDA e : e.id \in before)]_vars

\* an entry was removed from the middle of the queue and an entry submitted after
\* it has been dispatched from the queue
C8_RemovedAndSkipped ==
  \E r \in removed, u \in DOMAIN sends :
    /\ r < u
    /\ sends[u].via = "queue"
    /\ r \notin Range(dispatched)
    /\ \E t \in Range(dispatched) : t < r /\ t > 1

\* C9: an accepted submission never repeats the signature of the previous accepted
\* submission when that one was made less than 1.5 s earlier.
C9_NoRepeatWithinWindow ==
  [][nSubmitted' = nSubmitted + 1 =>
       ~(/\ lastAccepted # None
         /\ lastAccepted[1].signature = lastAccepted'[1].signature
         /\ lastAccepted[1].age < DedupeWindow)]_vars

\* the stream of turn t ends normally in this step, in a mounted window
StreamEnds(t) ==
  /\ isMounted
  /\ sends[t].pc = "streaming"
  /\ t \notin DOMAIN sends' \/ sends'[t].pc = "storing"
  /\ outcome'[t] # "error"

\* C10: when the stream of a turn ends and the answer the code goes on with (the
\* accumulated fragments, or the test hook's mockContent in their place) is empty
\* or whitespace only, the turn is dropped: no message is added to the
\* conversation, so no assistant message and no error message, and the
\* conversation holds no assistant message of that turn.
C10_EmptyAnswerDropped ==
  [][\A t \in DOMAIN sends :
       (StreamEnds(t)
          /\ Trim(WithMockContent(sends[t].assistantContent, duplicateTestConfig)) = <<>>)
         => /\ outcome'[t] = "empty"
            /\ t \notin DOMAIN sends'
            /\ \A i \in 1..Len(messages') : \E j \in 1..Len(messages) :
                 messages'[i] = messages[j]
            /\ AssistantsOf(messages', t) = {}]_vars

\* a turn was dropped for its whitespace-only answer: its user message is in the
\* conversation and nothing follows it
C10_TurnDropped ==
  \E t \in DOMAIN outcome :
    /\ outcome[t] = "empty"
    /\ messages # <<>>
    /\ messages[Len(messages)].id = t
    /\ messages[Len(messages)].role = "user"

\* C11: when an answer is stored for a turn whose assistant message is already in
\* the list, that message is updated in place: the list keeps its length, every
\* position keeps its id, the message of the turn carries the new answer and every
\* other message is untouched.
C11_UpdatedInPlace ==
  (callArgs # None /\ callResult # None) =>
    LET a == callArgs[1]
        base == a.baseMessages
        final == callResult[1]
        existingId == TurnMapGet(base, a.turnId)
        index == FindIndexById(base, existingId)
    IN existingId # 0 =>
         /\ Len(final) = Len(base)
         /\ \A i \in 1..Len(base) : final[i].id = base[i].id
         /\ final[index].role = "assistant"
         /\ final[index].turnId = a.turnId
         /\ final[index].content = a.content
         /\ final[index].thinking = a.thinking
         /\ \A i \in 1..Len(base) : i # index => final[i] = base[i]
         /\ Cardinality(AssistantsOf(final, a.turnId)) = Cardinality(AssistantsOf(base, a.turnId))

\* an answer with other content was stored for a turn whose message is not the last
\* of the list
C11_MiddleMessageUpdated ==
  /\ callArgs # None /\ callResult # None
  /\ LET a == callArgs[1]
         index == FindIndexById(a.baseMessages, TurnMapGet(a.baseMessages, a.turnId))
     IN /\ TurnMapGet(a.baseMessages, a.turnId) # 0
        /\ index < Len(a.baseMessages)
        /\ a.baseMessages[index].content # a.content
        /\ callResult[1][index].content = a.content

\* a text with something other than whitespace in it
HasText(s) == \E i \in 1..Len(s) : ~IsSpace(s[i])

\* C12: the accumulated text (line breaks normalised) is partitioned by three cases,
\* where "non-empty" reads "holds more than whitespace", thinking is given without
\* surrounding whitespace and the answer without leading whitespace:
\* (1) the text has a double newline and the parts before and after the first one
\* are both non-empty: thinking is the part before, the answer the part after;
\* (2) otherwise, more than one fragment was received and the first fragment and the
\* concatenation of the rest are both non-empty: thinking is the first fragment, the
\* answer the concatenation of the rest; (3) otherwise the whole text is the answer
\* and thinking is undefined.
C12_ThreeCaseRule ==
  (callArgs # None /\ callResult # None) =>
    LET text == normalizeNewlines(callArgs[1].fullContent)
        fragments == callArgs[1].deltaHistory
        result == callResult[1]
        break == DoubleBreakIndex(text)
        before == SubSeq(text, 1, break - 1)
        after == SubSeq(text, break + 2, Len(text))
        first == normalizeNewlines(Head(fragments))
        rest == normalizeNewlines(JoinChunks(NormalizeEach(Tail(fragments))))
        case1 == break # 0 /\ HasText(before) /\ HasText(after)
        case2 == ~case1 /\ Len(fragments) > 1 /\ HasText(first) /\ HasText(rest)
    IN HasText(text) =>
         /\ case1 => result.thinking = Trim(before) /\ result.answer = TrimStart(after)
         /\ case2 => result.thinking = Trim(first) /\ result.answer = TrimStart(rest)
         /\ (~case1 /\ ~case2) =>
              result.thinking = <<>> /\ result.answer = TrimStart(text)

\* the text has a double newline with both parts non-empty and several fragments
\* with a non-empty first one were received: the double newline decided
C12_DoubleBreakDecides ==
  /\ callArgs # None /\ callResult # None
  /\ LET text == normalizeNewlines(callArgs[1].fullContent)
         fragments == callArgs[1].deltaHistory
         break == DoubleBreakIndex(text)
     IN /\ break # 0
        /\ Len(fragments) > 2
        /\ HasText(Head(fragments))
        /\ HasText(JoinChunks(Tail(fragments)))
        /\ callResult[1].thinking = Trim(SubSeq(text, 1, break - 1))
        /\ callResult[1].thinking # Trim(Head(fragments))
        /\ callResult[1].thinking # <<>>
        /\ callResult[1].answer = TrimStart(SubSeq(text, break + 2, Len(text)))

\* the last element of a non-empty sequence
Last(seq) == seq[Len(seq)]

\* in this step the save timer fires and persistSessionState calls saveElementChat
TimerWrites ==
  /\ Len(saving') = Len(saving) + 1
  /\ Last(saving').via = "timer"

\* the parts of a session that the save effect watches
Watched(session) ==
  <<session.messages, session.windowState.position, session.windowState.size,
    session.windowState.collapseState, session.windowState.anchorOffset,
    session.windowState.queueExpanded, session.windowState.clearPreviousAssistant>>

\* C13: persistence writes are trailing-edge debounced. A write of the save timer
\* comes no sooner than 500 ms after the last mutation (so a run of mutations less
\* than 500 ms apart has no write inside it), it is the only write of its run, it
\* carries the state that the last mutation of the run left, and a write that is
\* pending stays pending until it is made, or the window is being closed (which
\* writes at once) or has been torn down.
C13_TrailingEdgeDebounce ==
  [][/\ TimerWrites =>
          /\ sinceMutation >= SaveDelay
          /\ lastMutated # None
          /\ Watched(Last(saving').session) = Watched(lastMutated[1].session)
          /\ lastMutated' = None
          /\ saveTimeoutRef' = None
     /\ (saveTimeoutRef # None /\ saveTimeoutRef' = None)
          => (TimerWrites \/ closing' \/ ~isMounted')
     /\ (lastMutated # None /\ ~TimerWrites /\ isMounted' /\ ~closing')
          => saveTimeoutRef' # None]_vars

\* the save timer has written the state left by a run of several mutations, and
\* that state is the one on the screen
C13_RunWrittenOnce ==
  /\ saving # <<>>
  /\ Head(saving).via = "timer"
  /\ Head(saving).run > 1
  /\ nMutations = MaxMutations
  /\ Head(saving).session = SessionSnapshot(Win)

\* the window state that the save effect watches has changed in this step
WindowMutated ==
  \/ position' # position
  \/ windowSize' # windowSize
  \/ collapseState' # collapseState
  \/ anchorOffset' # anchorOffset
  \/ queueExpanded' # queueExpanded
  \/ clearPreviousAssistant' # clearPreviousAssistant

\* the fields of session.windowState that persistSessionState writes
PersistedFields ==
  {"position", "size", "collapseState", "anchorOffset", "queueExpanded",
   "clearPreviousAssistant", "activeAnchorKey"}

C15_CloseFlushesBeforeTeardown ==
  [][/\ (~closing /\ closing')
          => /\ saveTimeoutRef' = None
             /\ saving' = Append(saving, Last(saving'))
             /\ Last(saving').via = "close"
             /\ Last(saving').session = SessionSnapshot(Win)
     /\ (isMounted /\ ~isMounted')
          => /\ closing
             /\ saving # <<>>
             /\ Head(saving).via = "close"
             /\ storage' = Some(Head(saving).session)]_vars

\* the window was closed while a change was waiting for the save timer, it is torn
\* down, and the storage holds that change
C15_PendingChangeFlushed ==
  /\ ~isMounted
  /\ lastMutated # None
  /\ storage = Some(lastMutated[1].session)
  /\ storage[1].windowState.collapseState = "rectangle"

\* C16: the session is created lazily on the first sent message: as long as no
\* message has been submitted, no session exists, nothing is being written and
\* nothing has been written, whatever is done to the window (move, resize, collapse,
\* close).
C16_NoSessionBeforeFirstMessage ==
  nSubmitted = 0 => (sessionRef = None /\ saving = <<>> /\ storage = None)

\* a step of the open window in which the page does not change and the user does
\* nothing to the window: in the anchoring specification, a repositioning tick
TickStep ==
  /\ isMounted
  /\ anchorRects' = anchorRects
  /\ userDragging' = userDragging
  /\ nMutations' = nMutations

\* within epsilon in both axes
Near(a, b) == Abs(a.x - b.x) <= Epsilon /\ Abs(a.y - b.y) <= Epsilon

\* C17: automatic repositioning never moves the window while the user is dragging
\* it: between drag start and drag stop no step changes the window position.
C17_NoRepositionWhileDragging ==
  [][(userDragging /\ userDragging') => position' = position]_vars

\* C18: after the user has dragged the window and dropped it while it was
\* attached to an anchor in the page, the offset recorded at the drop places the
\* window where it was dropped: as long as the page has not changed since, no
\* tick moves the window more than epsilon (0.5 px) away from the drop.
C18_OffsetStableAfterDrag ==
  (lastDrop # None /\ lastDrop[1].measured) => Near(position, lastDrop[1].at)

\* the window has been dragged away from where it opened while the page was
\* scrolled, the tick after the drop has run, and the window is where it was dropped
C18_DroppedAndSettled ==
  /\ lastDrop # None /\ lastDrop[1].measured
  /\ ~userDragging
  /\ anchorRects # PageRects(AnchorKeys, Pt(0, 0))
  /\ anchorElementRef # None
  /\ position = lastDrop[1].at
  /\ anchorOffset = Some(Minus(position, anchorRects[anchorElementRef[1]][1]))
  /\ anchorOffsetsRef[activeAnchorKey] = anchorOffset

\* the anchor a tick attaches to by the rule of the priority order: the active
\* anchor if it is in the page, else the first anchor of the list that is; optional
Attached(activeKey, rects) ==
  IF activeKey \in AnchorKeys /\ rects[activeKey] # None THEN Some(activeKey)
  ELSE IF \A i \in 1..Len(descriptorList) : rects[descriptorList[i]] = None THEN None
  ELSE LET first == CHOOSE i \in 1..Len(descriptorList) :
                      /\ rects[descriptorList[i]] # None
                      /\ \A j \in 1..(i - 1) : rects[descriptorList[j]] = None
       IN Some(descriptorList[first])

\* C19: a tick that resolves an anchor for which no offset is cached infers the
\* offset as the window's position minus the anchor's rectangle, caches it, and
\* does not move the window.
C19_FirstAttachmentDoesNotJump ==
  [][(/\ TickStep
      /\ Attached(activeAnchorKey, anchorRects) # None
      /\ anchorOffsetsRef[Attached(activeAnchorKey, anchorRects)[1]] = None)
       => LET key == Attached(activeAnchorKey, anchorRects)[1]
          IN /\ position' = position
             /\ anchorOffsetsRef'[key] = Some(Minus(position, anchorRects[key][1]))]_vars

OpStep(op) ==
  /\ nMutations' = nMutations + 1
  /\ lastOp' # None
  /\ lastOp'[1].op = op
  /\ lastOp'[1].n = nMutations'

\* the user clicks an anchor chip in this step
ChipStep == OpStep("select")

\* the default offset beside the element of `key`, nudged
NudgedDefault(key) ==
  Pt(Min(AnchorWidth[key] + DefaultGap, MaxDefaultOffset), 0 - ANCHOR_ALIGNMENT_NUDGE_PX)

\* C21 as stated: selecting an anchor whose element is in the page uses the
\* anchor's cached offset if there is one, and otherwise the default offset
\* (horizontal distance clamped) with the 32 px nudge.
C21_CachedOrDefaultOffset ==
  [][(ChipStep /\ lastOp'[1].inPage)
       => LET key == lastOp'[1].key
          IN anchorOffset' = IF anchorOffsetsRef[key] # None THEN anchorOffsetsRef[key]
                             ELSE Some(NudgedDefault(key))]_vars

\* C21, amended: selecting an anchor whose element is in the page uses the
\* anchor's cached offset, unchanged, if there is one; otherwise it takes the
\* window's current offset, or without one the default offset beside the element
\* (clamped), moves it up by the 32 px nudge and caches the result for the anchor.
\* The window is placed at the anchor's rectangle plus that offset, and no cache
\* entry is ever removed, so an anchor is nudged at most once.
C21_CachedElseCurrentOffsetNudged ==
  [][/\ (ChipStep /\ lastOp'[1].inPage)
          => LET key == lastOp'[1].key
                 expected ==
                   IF anchorOffsetsRef[key] # None THEN anchorOffsetsRef[key][1]
                   ELSE IF anchorOffset # None
                        THEN Pt(anchorOffset[1].x,
                                anchorOffset[1].y - ANCHOR_ALIGNMENT_NUDGE_PX)
                        ELSE NudgedDefault(key)
             IN /\ activeAnchorKey' = key
                /\ anchorOffset' = Some(expected)
                /\ anchorOffsetsRef'[key] = Some(expected)
                /\ position' = Plus(anchorRects[key][1], expected)
     /\ \A k \in AnchorKeys : anchorOffsetsRef[k] # None => anchorOffsetsRef'[k] # None]_vars

\* an anchor that was nudged when it was first selected has been selected again,
\* and its cached offset was reused as it was
C21_SecondActivationReusesOffset ==
  /\ nMutations >= 2
  /\ lastOp # None
  /\ lastOp[1].op = "select"
  /\ lastOp[1].inPage
  /\ lastOp[1].cached # None
  /\ activeAnchorKey = lastOp[1].key
  /\ anchorOffset = lastOp[1].cached
  /\ anchorOffset[1].y < 8 - ANCHOR_ALIGNMENT_NUDGE_PX
  /\ anchorOffset[1].y > 0 - 2 * ANCHOR_ALIGNMENT_NUDGE_PX

\* the user drops the window or ends a resize in this step
DropOrResizeStep ==
  \/ userDragging /\ ~userDragging'
  \/ OpStep("resize")

CollapseStep == OpStep("rectangle") \/ OpStep("square") \/ OpStep("expand") \/ OpStep("set")

\* C23: the collapse controls are toggles. The rectangle action takes the expanded
\* window and the square to the rectangle and the rectangle back to expanded; the
\* square action takes the expanded window and the rectangle to the square and the
\* square back to expanded; an explicit expand, by the square's button or by the
\* test event, takes the square and the rectangle to expanded. (The square renders
\* no header, so there the only control a user can press is the explicit expand.)
C23_CollapseToggles ==
  [][/\ OpStep("rectangle") =>
          collapseState' = IF collapseState = "rectangle" THEN "expanded" ELSE "rectangle"
     /\ OpStep("square") =>
          collapseState' = IF collapseState = "square" THEN "expanded" ELSE "square"
     /\ OpStep("expand") => collapseState' = "expanded"
     /\ (OpStep("set") /\ lastOp'[1].to = "expanded") => collapseState' = "expanded"
     /\ CollapseStep => lastOp'[1].from = collapseState]_vars

\* the rectangle button was pressed on the rectangle and the window is expanded again
C23_RectangleToggledBack ==
  /\ lastOp # None /\ lastOp[1].op = "rectangle" /\ lastOp[1].from = "rectangle"
  /\ collapseState = "expanded"

\* the size that the window displays
Rendered == renderedSize([collapseState |-> collapseState, windowSize |-> windowSize])

\* C24: a collapse control that lands on the expanded window displays the width and
\* height the window had when it was last expanded, and a collapse control that
\* lands on the rectangle or the square leaves the stored size as it was.
C24_CycleRestoresSize ==
  [][CollapseStep =>
       /\ lastOp'[1].was = ExpandedSize
       /\ windowSize' = windowSize
       /\ collapseState' = "expanded"
            => windowSize' = lastOp'[1].was /\ Rendered' = lastOp'[1].was]_vars

\* a resized window went to the square and came back with the size it was resized to
C24_BackFromSquare ==
  /\ lastOp # None /\ lastOp[1].op = "expand" /\ lastOp[1].from = "square"
  /\ collapseState = "expanded"
  /\ Rendered = [width |-> 500, height |-> 300]
  /\ lastOp[1].was = Rendered

\* the sizes a window can have stored
StoredSizes == CollapseSizes \cup {[width |-> 420, height |-> 550]}

\* C25, as stated: while the window is not expanded, the size it displays follows
\* from collapseState alone, whatever width and height are stored.
C25_DisplayedSizeFromStateAlone ==
  collapseState # "expanded" =>
    \A size \in StoredSizes :
      renderedSize([collapseState |-> collapseState, windowSize |-> size]) = Rendered

\* C25, amended: while the window is not expanded, the height it displays follows
\* from collapseState (the header's height in the rectangle, the square's side in the
\* square) and so does the square's width, the rectangle keeps the stored width, and
\* the stored width and height are those the window had when it was last expanded.
C25_CollapsedSize ==
  collapseState # "expanded" =>
    /\ Rendered.height = IF collapseState = "rectangle" THEN headerOnlyHeight ELSE squareSize
    /\ Rendered.width = IF collapseState = "rectangle" THEN windowSize.width ELSE squareSize
    /\ lastOp # None /\ windowSize = lastOp[1].was

\* a resized window is shown as a rectangle of the stored width
C25_RectangleOfStoredWidth ==
  /\ collapseState = "rectangle"
  /\ windowSize = [width |-> 500, height |-> 300]
  /\ Rendered = [width |-> 500, height |-> headerOnlyHeight]

\* the element that a lookup returned is the first, in document order, of `places`
IsFirstOf(result, places) ==
  /\ result # None
  /\ result[1] \in places
  /\ \A j \in places : result[1] <= j

\* the elements that carry the descriptor's id, that its selector selects, that carry
\* its logical identifier, and those of the latter whose rectangle is within 5 px of
\* the descriptor's top and left
WithId(page, d) == IF d.id = "" THEN {} ELSE {i \in DOMAIN page : page[i].id = d.id}
Selected(page, d) ==
  IF d.cssSelector = "" \/ ~ValidSelector(d.cssSelector) THEN {}
  ELSE querySelectorAll(page, d.cssSelector)
WithChatId(page, d) == {i \in DOMAIN page : page[i].chatId = d.chatId}
Nearby(page, d) ==
  {i \in WithChatId(page, d) :
     /\ Abs(page[i].rect.y - d.boundingRect.y) < ProximityPx
     /\ Abs(page[i].rect.x - d.boundingRect.x) < ProximityPx}

\* C27: resolution returns the first hit of four strategies tried in this order:
\* the element with the descriptor's id; the first element that the CSS selector
\* selects, a selector that the page rejects counting as a miss; of the elements
\* that carry the descriptor's logical identifier, when there are several, the first
\* whose rectangle is within 5 px of the descriptor's top and left, else the first
\* of them; and last the structural lookup.
C27_ResolutionOrder ==
  (callArgs # None /\ callResult # None) =>
    LET page == callArgs[1].page
        d == callArgs[1].descriptor
        result == callResult[1]
    IN IF WithId(page, d) # {} THEN IsFirstOf(result, WithId(page, d))
       ELSE IF Selected(page, d) # {} THEN IsFirstOf(result, Selected(page, d))
       ELSE IF WithChatId(page, d) # {}
         THEN IF Cardinality(WithChatId(page, d)) > 1 /\ Nearby(page, d) # {}
              THEN IsFirstOf(result, Nearby(page, d))
              ELSE IsFirstOf(result, WithChatId(page, d))
       ELSE result = findElementByDescriptor(page, d)

\* the id missed, the page rejected the selector, two elements carry the logical
\* identifier and the second of them is the one near the descriptor's rectangle
C27_SecondCandidateIsNear ==
  /\ callArgs # None /\ callResult # None
  /\ LET page == callArgs[1].page
         d == callArgs[1].descriptor
     IN /\ d.id = "i" /\ WithId(page, d) = {}
        /\ d.cssSelector = "["
        /\ WithChatId(page, d) = {1, 2}
        /\ Nearby(page, d) = {2}
        /\ callResult[1] = Some(2)

\* the descriptor describes the element at place t as it is now: its id, its logical
\* identifier and its rectangle are the descriptor's, and the descriptor's selector,
\* if it has one, selects it
Describes(page, d, t) ==
  /\ page[t].id = d.id
  /\ page[t].chatId = d.chatId
  /\ page[t].rect = d.boundingRect
  /\ d.cssSelector # "" => t \in Selected(page, d)

\* the element at place u duplicates the one at place t somewhere else on the page
Duplicates(page, u, t) ==
  /\ page[u].id = page[t].id
  /\ page[u].cls = page[t].cls
  /\ page[u].chatId = page[t].chatId
  /\ page[u].rect # page[t].rect

\* the element at place u has nothing that the descriptor looks for
Unrelated(page, d, u) ==
  u \notin WithId(page, d) \cup Selected(page, d) \cup WithChatId(page, d)

\* C26: when the descriptor describes an element of the page as it is now, and every
\* other element either duplicates that element at another place or has nothing the
\* descriptor looks for, resolution returns exactly that element.
C26_RoundTrip ==
  (callArgs # None /\ callResult # None) =>
    LET page == callArgs[1].page
        d == callArgs[1].descriptor
    IN \A t \in DOMAIN page :
         (/\ Describes(page, d, t)
          /\ \A u \in DOMAIN page \ {t} :
               Duplicates(page, u, t) \/ Unrelated(page, d, u))
           => callResult[1] = Some(t)

\* the badges in the page that the entry of a pair holds
MarkersOf(pair) ==
  {b \in DOMAIN badges : pair \in DOMAIN indicators /\ indicators[pair].badge = b}

C29_UpsertIdempotent ==
  [][(/\ nIndicatorOps' = nIndicatorOps + 1
      /\ lastIndicatorOp'[1].op = "upsert"
      /\ lastIndicatorOp'[1].again)
       => /\ indicators' = indicators
          /\ badges' = badges
          /\ hiddenChats' = hiddenChats
          /\ nextBadge' = nextBadge
          /\ \A pair \in PairsOf(lastIndicatorOp'[1].arg) :
               Cardinality(MarkersOf(pair)') = 1]_vars

\* a session with two descriptors was upserted twice in a row and has two markers
C29_UpsertedTwice ==
  /\ lastIndicatorOp # None /\ lastIndicatorOp[1].op = "upsert"
  /\ lastIndicatorOp[1].again
  /\ Len(lastIndicatorOp[1].arg.elementDescriptors) = 2
  /\ Cardinality(DOMAIN badges) = 2

\* C30: while the window of a chat is open, none of the chat's markers is displayed.
C30_HiddenWhileOpen ==
  \A key \in DOMAIN indicators :
    indicators[key].chatId \in openChats => badges[indicators[key].badge] = "none"

\* a step of the animation frame that runs the service's refresh
RefreshStep == refreshRequests > 0 /\ refreshRequests' = 0

\* C31: a refresh leaves every entry of the registry in place with its badge; the
\* badge of an entry whose chat is not hidden is displayed after it exactly when the
\* entry's element is in the page with a size, so a marker hidden for want of an
\* element is displayed again by the first refresh that finds the element. No
\* change of the page removes an entry.
C31_HiddenButKept ==
  [][/\ RefreshStep =>
          \A key \in DOMAIN indicators :
            /\ key \in DOMAIN indicators'
            /\ indicators'[key].badge = indicators[key].badge
            /\ indicators[key].badge \in DOMAIN badges'
            /\ indicators[key].chatId \notin hiddenChats =>
                 badges'[indicators[key].badge] =
                   IF domElements[indicators[key].descriptor.chatId] = "present"
                   THEN "block" ELSE "none"
     /\ nIndicatorOps' = nIndicatorOps => DOMAIN indicators' = DOMAIN indicators]_vars

\* after a single sync, a second refresh found a marker undisplayed, so left by the
\* first without an element or without a size, and displayed it
C31_MarkerReappeared ==
  /\ nIndicatorOps = 1
  /\ lastFrame # None /\ lastFrame[1].ran = "refresh" /\ lastFrame[1].again
  /\ \E key \in DOMAIN indicators :
       /\ key[2] = "d1"
       /\ lastFrame[1].before[indicators[key].badge] = "none"
       /\ badges[indicators[key].badge] = "block"
       /\ indicators[key].element = Some("d1")

\* C32: whatever events arrive, each side has at most one repositioning callback
\* waiting for the next animation frame, and a frame runs at most one pass of the
\* indicator refresh and at most one of the anchor tick. (The passes that the
\* window's effects run after a render are not driven by the events.)
C32_Coalesced ==
  /\ refreshRequests <= 1
  /\ anchorRequests <= 1
  /\ rafHandle <=> refreshRequests = 1
  /\ anchorRequests = 1 => animationFrameRef = "pending"
  /\ lastFrame # None => lastFrame[1].passes = 1

\* the indicators heard several events and their frame ran one refresh; since then
\* the window has heard several events and one callback waits
C32_SeveralEventsOnePass ==
  /\ lastFrame # None /\ lastFrame[1].ran = "refresh"
  /\ lastFrame[1].events = 2 /\ lastFrame[1].passes = 1
  /\ eventsSinceFrame.anchor = 2
  /\ anchorRequests = 1

\* a step in which processQueue takes an entry from the queue and dispatches it
DequeueStep ==
  /\ Len(dispatched') = Len(dispatched) + 1
  /\ sends'[dispatched'[Len(dispatched')]].via = "queue"

\* C33: any two consecutive dequeues from the dispatch queue are at least 100 ms
\* apart: when processQueue takes an entry and has taken one before, at least
\* DequeueDelay has passed since that earlier dequeue.
C33_DequeuesSpaced ==
  [][DequeueStep /\ dequeues.n > 0 => dequeues.age >= DequeueDelay]_vars

\* the side of the square, in pixels, as the CollapseState type documents it and as
\* the collapse test measures it
documentedSquareSize == 64

\* C34: in the square collapse state the window is displayed at 64 by 64 pixels.
C34_SquareDisplayed ==
  collapseState = "square" =>
    Rendered = [width |-> documentedSquareSize, height |-> documentedSquareSize]

\* the ids of the messages of a list
IdsIn(msgs) == {msgs[i].id : i \in 1..Len(msgs)}

\* C35: once the history is cleared, no message that was in the list before the
\* clear is in the message list or in the session again, also when a request that
\* was in flight at the clear completes or fails afterwards.
C35_ClearedStaysCleared ==
  /\ IdsIn(messages) \cap clearedIds = {}
  /\ sessionRef # None => IdsIn(sessionRef[1].messages) \cap clearedIds = {}

\* a step in which handleClearHistory empties the message list
ClearStep == messages # <<>> /\ messages' = <<>> /\ messagesArray' = ClearedArray

\* the message of the list with this id is an assistant message
IsAssistantIn(msgs, id) ==
  \E i \in 1..Len(msgs) : msgs[i].id = id /\ msgs[i].role = "assistant"

\* C36: a message that is in the message list stays in it until the history is
\* cleared or the replace-last-assistant preference removes it: no other step, and
\* in particular no completion, failure or persistence write of a turn, takes a
\* message out of the list.
C36_MessagesStay ==
  [][\A id \in IdsIn(messages) :
       \/ id \in IdsIn(messages')
       \/ ClearStep
       \/ clearPreviousAssistant /\ IsAssistantIn(messages, id)]_vars

\* the ids of the assistant messages of a list
AssistantIds(msgs) == {msgs[i].id : i \in {j \in 1..Len(msgs) : msgs[j].role = "assistant"}}

\* the stream of turn t ends with an answer that the code stores
StoresAnswer(t) ==
  /\ isMounted
  /\ sends[t].pc = "streaming"
  /\ \/ t \in DOMAIN sends' /\ sends'[t].pc = "storing"
     \/ t \notin DOMAIN sends' /\ outcome'[t] = "stored"

\* the list that the turn whose stream has just ended puts in place of the message list
FinalOf(t) == IF t \in DOMAIN sends' THEN sends'[t].finalMessages ELSE messages'

\* turn t ends without an answer: an empty answer or a failure
EndsWithout(t) ==
  /\ isMounted
  /\ outcome[t] = "pending"
  /\ outcome'[t] \in {"empty", "error"}

\* C37: with the replace-last-assistant preference on, a turn that stores a new
\* answer removes exactly one earlier assistant message, the most recent one, and a
\* turn that ends with an empty answer or with a failure removes no assistant
\* message, neither from the message list nor from the session.
C37_ReplacesExactlyOne ==
  [][clearPreviousAssistant =>
       \A t \in DOMAIN sends :
         /\ StoresAnswer(t) /\ AssistantIds(messages) # {} =>
              AssistantIds(messages) \ AssistantIds(FinalOf(t))
                = {messages[LastAssistantIndex(messages, Len(messages))].id}
         /\ EndsWithout(t) =>
              /\ AssistantIds(messages) \subseteq AssistantIds(messages')
              /\ sessionRef # None =>
                   AssistantIds(sessionRef[1].messages)
                     \subseteq AssistantIds(sessionRef'[1].messages)]_vars

\* C38: an automatic repositioning tick changes the cached offset of no anchor but
\* the one it resolved, and when that anchor already has a cached offset the tick
\* leaves it or replaces it with an offset measured against that anchor (the
\* window's position minus that anchor's rectangle), never with one measured
\* against another anchor.
C38_TickKeepsOtherAnchorsOffsets ==
  [][TickStep =>
       LET attached == Attached(activeAnchorKey, anchorRects)
       IN /\ \A key \in AnchorKeys :
               (attached = None \/ key # attached[1])
                 => anchorOffsetsRef'[key] = anchorOffsetsRef[key]
          /\ (attached # None /\ anchorOffsetsRef[attached[1]] # None)
               => \/ anchorOffsetsRef'[attached[1]] = anchorOffsetsRef[attached[1]]
                  \/ anchorOffsetsRef'[attached[1]]
                       = Some(Minus(position, anchorRects[attached[1]][1]))]_vars

\* C39: within one session, distinct descriptors of the descriptor list get
\* distinct keys, so that a key identifies exactly one descriptor.
C39_DistinctKeys ==
  callResult # None =>
    LET list == callArgs[1].list
        keys == callResult[1]
    IN \A i, j \in 1..Len(list) : list[i] # list[j] => keys[i] # keys[j]

\* handleSendMessage drops this submission: it has content or images and the handler
\* returns without accepting it
DropsSubmission(input) ==
  /\ ~(Trim(input.text) = <<>> /\ input.images = <<>>)
  /\ handleSendMessage(Mach, input.text, input.images) = Mach

\* C40: a submission with content or images is dropped only if the same signature
\* was submitted less than 1.5 s before: whenever the handler would drop a
\* submission, a submission has been accepted before, and if the last accepted one
\* has the signature of the dropped one, it was made less than 1.5 s ago, whenever
\* its request finished.
C40_DroppedOnlyWithinWindow ==
  \A input \in Inputs :
    DropsSubmission(input) =>
      /\ lastAccepted # None
      /\ lastAccepted[1].signature
           = Signature(ContentFor(input.text, input.images), input.images)
           => lastAccepted[1].age < DedupeWindow

====
